---- MODULE Spec2Model ----
(***************************************************************************)
(* A model of node-pandas' DataFrame (src/src/dataframe/dataframe.js) and  *)
(* GroupBy (src/src/features/GroupBy.js): construction, row/cell access,   *)
(* select, filter, apply, map, replace, groupBy aggregation, merge and     *)
(* concat.  Row positions are 1-based here and 0-based in the JavaScript;  *)
(* index labels keep their JavaScript values (0, 1, ... or "0", "1", ...). *)
(***************************************************************************)
EXTENDS Integers, Sequences, FiniteSets, TLC

VARIABLES this, other, res, op, attribs, proto

vars == <<this, other, res, op, attribs, proto>>

(***************************************************************************)
(* Bounds of the checked instances.                                        *)
(***************************************************************************)
\* rows of the receiver / of the argument Table under Spec
MaxRows == 2
MaxOtherRows == 1
\* rows of the left / right Table, and of both together, under SpecMerge
MaxLeftRows == 3
MaxRightRows == 3
MaxMergeRows == 5
\* the largest integer whose decimal form is looked for among property names
MaxIndexKey == 9
\* rows of a grouped Table
MaxGroupRows == 3

(***************************************************************************)
(* JavaScript values.  t is the typeof-like tag, s is String(value); for a *)
(* number n/d is its value, for a string n/d is what parseFloat returns    *)
(* (d = 0: NaN).  rt marks the square root of n/d (Math.sqrt results).     *)
(***************************************************************************)
Gcd(a, b) == CHOOSE g \in 1..(IF a > b THEN a ELSE b) :
                /\ a % g = 0 /\ b % g = 0
                /\ \A h \in (g + 1)..(IF a > b THEN a ELSE b) : ~(a % h = 0 /\ b % h = 0)

Abs(i) == IF i < 0 THEN 0 - i ELSE i

\* a rational number n/d (d > 0) in lowest terms, with its string form
Rat(n, d) ==
  LET g == IF n = 0 THEN d ELSE Gcd(Abs(n), d)
      nn == n \div g
      dd == d \div g
  IN [t |-> "number", n |-> nn, d |-> dd, rt |-> FALSE,
      s |-> IF dd = 1 THEN ToString(nn) ELSE ToString(nn) \o "/" \o ToString(dd)]

Num(i) == Rat(i, 1)

\* a string whose content is the decimal form of the integer i
NumStr(i) == [t |-> "string", n |-> i, d |-> 1, rt |-> FALSE, s |-> ToString(i)]

\* a string that starts with the decimal form of the integer i and goes on
\* with the non-numeric text x: parseFloat reads i
PrefixNumStr(i, x) ==
  [t |-> "string", n |-> i, d |-> 1, rt |-> FALSE, s |-> ToString(i) \o x]

\* a string parseFloat does not read as a number
Str(x) == [t |-> "string", n |-> 0, d |-> 0, rt |-> FALSE, s |-> x]

Null == [t |-> "null", n |-> 0, d |-> 0, rt |-> FALSE, s |-> "null"]

Undefined == [t |-> "undefined", n |-> 0, d |-> 0, rt |-> FALSE, s |-> "undefined"]

\* what a throwing callback yields in place of a value
Thrown == [t |-> "thrown", n |-> 0, d |-> 0, rt |-> FALSE, s |-> "thrown"]

\* the string String(v), as a value; parseFloat reads back the number a
\* number's string form denotes
ToStringValue(v) ==
  IF v.t = "string" THEN v
  ELSE IF v.t = "number" /\ ~v.rt
       THEN [t |-> "string", n |-> v.n, d |-> v.d, rt |-> FALSE, s |-> v.s]
       ELSE Str(v.s)

\* a === b on primitives
StrictEq(a, b) == a.t = b.t /\ a.n = b.n /\ a.d = b.d /\ a.rt = b.rt /\ a.s = b.s

\* String(value)
String(v) == v.s

\* variant: a string is written without its quotes
JSONElementUnquoted(v) ==
  CASE v.t = "string" -> v.s
    [] v.t = "number" -> v.s
    [] OTHER -> "null"

\* JSON.stringify of one array element: strings are quoted, null and
\* undefined both serialise as null
JSONElement(v) ==
  CASE v.t = "string" -> "\"" \o v.s \o "\""
    [] v.t = "number" -> v.s
    [] OTHER -> "null"

RECURSIVE JoinComma(_)
JoinComma(strs) ==
  IF Len(strs) = 0 THEN ""
  ELSE IF Len(strs) = 1 THEN strs[1]
  ELSE strs[1] \o "," \o JoinComma(Tail(strs))

\* JSON.stringify(keyValues) for an array of primitives
JSONStringify(vals) ==
  "[" \o JoinComma([i \in 1..Len(vals) |-> JSONElement(vals[i])]) \o "]"

(***************************************************************************)
(* Sequence helpers.                                                       *)
(***************************************************************************)
Range(q) == {q[i] : i \in 1..Len(q)}

Includes(q, x) == \E i \in 1..Len(q) : q[i] = x

\* Array.prototype.indexOf, 1-based; 0 when absent
IndexOf(q, x) ==
  IF Includes(q, x) THEN CHOOSE i \in 1..Len(q) : q[i] = x /\ \A j \in 1..(i - 1) : q[j] # x
  ELSE 0

\* the last position holding x
LastIndexOf(q, x) == CHOOSE i \in 1..Len(q) : q[i] = x /\ \A j \in (i + 1)..Len(q) : q[j] # x

RECURSIVE Flatten(_)
Flatten(qq) == IF Len(qq) = 0 THEN <<>> ELSE qq[1] \o Flatten(Tail(qq))

RECURSIVE SelectSeqBy(_, _)
\* the elements of q at the positions of keep that are TRUE, in order
SelectSeqBy(q, keep) ==
  IF Len(q) = 0 THEN <<>>
  ELSE (IF keep[1] THEN <<q[1]>> ELSE <<>>) \o SelectSeqBy(Tail(q), Tail(keep))

HasDuplicates(q) == \E i, j \in 1..Len(q) : i < j /\ q[i] = q[j]

(***************************************************************************)
(* Rows.  A row is a JavaScript object: arr says whether it is an Array,   *)
(* f maps its own property names to values (an Array of length n has the   *)
(* properties "0" .. "n-1").                                               *)
(***************************************************************************)
ArrayRow(cells) ==
  [arr |-> TRUE,
   f |-> [key \in {ToString(j - 1) : j \in 1..Len(cells)} |->
            cells[CHOOSE j \in 1..Len(cells) : ToString(j - 1) = key]]]

\* row[name]: undefined when the property is absent
Prop(row, name) == IF name \in DOMAIN row.f THEN row.f[name] ELSE Undefined

\* rowData[i] for an Array row, i 1-based here
At(row, i) == Prop(row, ToString(i - 1))

\* { ...row }: a fresh plain object with the same own properties
SpreadCopy(row) == [arr |-> FALSE, f |-> row.f]

\* row[name] = value on a plain object
SetProp(row, name, value) ==
  [row EXCEPT !.f = [key \in (DOMAIN row.f) \cup {name} |->
                       IF key = name THEN value ELSE row.f[key]]]

(***************************************************************************)
(* Results of an operation: a Table (alias says whether the object         *)
(* returned is the receiver, the argument or a fresh one; prov names, for  *)
(* each row, the left and right source rows it was built from, 0 for none) *)
(* or a thrown error.                                                      *)
(***************************************************************************)
NoTable == [columns |-> <<>>, index |-> <<>>, data |-> <<>>, rows |-> 0, cols |-> 0]

Ok(tbl) == [kind |-> "table", err |-> "", alias |-> "new", tbl |-> tbl, prov |-> <<>>]

Err(e) == [kind |-> "error", err |-> e, alias |-> "new", tbl |-> NoTable, prov |-> <<>>]

IsOk(r) == r.kind = "table"

(***************************************************************************)
(* validation.js                                                           *)
(***************************************************************************)
\* "" when the data is accepted, the error otherwise
validateDataFrameStructure(dataList) ==
  IF Len(dataList) = 0 THEN ""
  ELSE IF \E i \in 2..Len(dataList) : Len(dataList[i]) # Len(dataList[1])
       THEN "Invalid DataFrame structure"
       ELSE ""

\* the column names of the model that stand for values that are no strings
\* (the number 7)
NonStringNames == {"<7>"}

\* isString(value) on a column name
isString(name) == name \notin NonStringNames

\* expectedLength < 0 stands for null (no length check)
validateColumnNames(columnNames, expectedLength) ==
  IF \E i \in 1..Len(columnNames) : ~isString(columnNames[i])
  THEN "Column name must be a string"
  ELSE IF HasDuplicates(columnNames) THEN "Column names must be unique"
  ELSE IF expectedLength >= 0 /\ Len(columnNames) # expectedLength
       THEN "Expected column names"
       ELSE ""

validateColumnsExist(requestedColumns, availableColumns) ==
  \A i \in 1..Len(requestedColumns) : Includes(availableColumns, requestedColumns[i])

validateRowIndex(index, numRows) == index >= 1 /\ index <= numRows

(***************************************************************************)
(* Construction.                                                           *)
(***************************************************************************)
\* object rows keyed by column name, index "0", "1", ...
getTransformedDataList(dataList, columns) ==
  [index |-> [i \in 1..Len(dataList) |-> NumStr(i - 1)],
   dataList |-> [i \in 1..Len(dataList) |->
      [arr |-> FALSE,
       f |-> [c \in {columns[j] : j \in 1..Len(dataList[i])} |->
                dataList[i][CHOOSE j \in 1..Len(dataList[i]) :
                   /\ columns[j] = c
                   /\ \A j2 \in (j + 1)..Len(dataList[i]) : columns[j2] # c]]]]]

\* index 0, 1, ...; columns are the property names of the first row
getIndicesColumns(dataList) ==
  [index |-> [i \in 1..Len(dataList) |-> Num(i - 1)],
   columns |-> [j \in 1..Len(dataList[1]) |-> ToString(j - 1)]]

\* the columns argument: absent (null), or an array of names
NoColumns == [given |-> FALSE, names |-> <<>>]

Columns(names) == [given |-> TRUE, names |-> names]

MakeTable(columns, index, data) ==
  [columns |-> columns, index |-> index, data |-> data,
   rows |-> Len(index), cols |-> Len(columns)]

\* new NodeDataFrame(dataList, columns); dataList is a sequence of cell
\* sequences
NodeDataFrame(dataList, columns) ==
  IF validateDataFrameStructure(dataList) # "" THEN Err("ValidationError")
  ELSE IF columns.given
  THEN IF Len(dataList) > 0 /\ validateColumnNames(columns.names, Len(dataList[1])) # ""
       THEN Err("ValidationError")
       ELSE LET tr == getTransformedDataList(dataList, columns.names)
            IN Ok(MakeTable(columns.names, tr.index, tr.dataList))
  ELSE IF Len(dataList) = 0
       THEN Ok(MakeTable(<<>>, <<>>, <<>>))
       ELSE LET ic == getIndicesColumns(dataList)
            IN Ok(MakeTable(ic.columns, ic.index,
                            [i \in 1..Len(dataList) |-> ArrayRow(dataList[i])]))

(***************************************************************************)
(* Row and cell access.                                                    *)
(***************************************************************************)
\* getRow(rowIndex) for a valid index: a mapping from column name to value
getRow(df, rowIndex) ==
  LET rowData == df.data[rowIndex]
  IN [c \in Range(df.columns) |->
        IF rowData.arr THEN At(rowData, LastIndexOf(df.columns, c))
        ELSE Prop(rowData, c)]

\* getCell(rowIndex, columnName) for a valid index and an existing column
getCell(df, rowIndex, columnName) ==
  LET rowData == df.data[rowIndex]
  IN IF rowData.arr THEN At(rowData, IndexOf(df.columns, columnName))
     ELSE Prop(rowData, columnName)

\* row[col] on the mapping getRow returns
RowGet(row, col) == IF col \in DOMAIN row THEN row[col] ELSE Undefined

(***************************************************************************)
(* Callbacks handed to filter, apply, map and replace, by name.            *)
(***************************************************************************)
\* the named conditions that are functions
Conditions == {"all", "none", "kIsNumber", "aIsNull", "throws"}

\* the name of the condition row => p(row) && q(row)
And(p, q) == p \o "&&" \o q

Conjunctions == {And(p, q) : p \in Conditions, q \in Conditions}

RECURSIVE PredEval(_, _)
\* condition(row): "T", "F" or "throw"
PredEval(p, row) ==
  CASE p = "all" -> "T"
    [] p = "none" -> "F"
    [] p = "kIsNumber" -> IF RowGet(row, "k").t = "number" THEN "T" ELSE "F"
    [] p = "aIsNull" -> IF RowGet(row, "a").t = "null" THEN "T" ELSE "F"
    [] p \in Conjunctions ->
         LET pq == CHOOSE pq \in Conditions \X Conditions : And(pq[1], pq[2]) = p
         IN IF PredEval(pq[1], row) = "T" THEN PredEval(pq[2], row)
            ELSE PredEval(pq[1], row)
    [] OTHER -> "throw"

\* fn(value, ...): the value returned, or Thrown
FnEval(fn, v) ==
  CASE fn = "same" -> v
    [] fn = "toNull" -> Null
    [] fn = "toStr" -> ToStringValue(v)
    [] OTHER -> Thrown

IsFunction(fn) == fn # "notfn"

\* an operation's effect: what it returns and what it leaves in the receiver
Effect(r, df) == [out |-> r, this |-> df]

\* columns.map(col => row[col]) on a stored row
ToArray(row, columns) == [j \in 1..Len(columns) |-> Prop(row, columns[j])]

(***************************************************************************)
(* select                                                                  *)
(***************************************************************************)
\* variant: the selected columns are kept in the order of the source
selectSourceOrder(df, columnNames) ==
  IF ~columnNames.arr THEN Effect(Err("ValidationError"), df)
  ELSE IF ~validateColumnsExist(columnNames.names, df.columns)
  THEN Effect(Err("ColumnError"), df)
  ELSE LET names == SelectSeqBy(df.columns,
                       [j \in 1..Len(df.columns) |-> Includes(columnNames.names, df.columns[j])])
           selectedData == [i \in 1..Len(df.data) |->
              [arr |-> FALSE,
               f |-> [c \in Range(names) |-> Prop(df.data[i], c)]]]
       IN Effect(NodeDataFrame([i \in 1..Len(selectedData) |->
                                   ToArray(selectedData[i], names)],
                               Columns(names)), df)

\* columnNames: [arr |-> is it an array, names |-> its elements]
select(df, columnNames) ==
  IF ~columnNames.arr THEN Effect(Err("ValidationError"), df)
  ELSE IF ~validateColumnsExist(columnNames.names, df.columns)
  THEN Effect(Err("ColumnError"), df)
  ELSE LET names == columnNames.names
           selectedData == [i \in 1..Len(df.data) |->
              [arr |-> FALSE,
               f |-> [c \in Range(names) |-> Prop(df.data[i], c)]]]
       IN Effect(NodeDataFrame([i \in 1..Len(selectedData) |->
                                   ToArray(selectedData[i], names)],
                               Columns(names)), df)

(***************************************************************************)
(* filter                                                                  *)
(***************************************************************************)
\* variant: the column count is left as the empty DataFrame had it
EmptyLikeStaleCols(df) ==
  LET emptyDf == NodeDataFrame(<<>>, NoColumns).tbl
  IN [emptyDf EXCEPT !.columns = df.columns]

\* variant: the empty DataFrame is returned as constructed, without columns
EmptyLikeNoColumns(df) == NodeDataFrame(<<>>, NoColumns).tbl

\* the DataFrame filter returns when no row is kept
EmptyLike(df) ==
  LET emptyDf == NodeDataFrame(<<>>, NoColumns).tbl
  IN [emptyDf EXCEPT !.columns = df.columns, !.cols = Len(df.columns)]

\* variant: a kept row is put in front of the rows kept before it
filterNewestFirst(df, condition) ==
  IF ~IsFunction(condition) THEN Effect(Err("ValidationError"), df)
  ELSE LET verdict == [i \in 1..df.rows |-> PredEval(condition, getRow(df, i))]
           kept == [i \in 1..df.rows |-> verdict[i] = "T"]
           rowArrays == [i \in 1..df.rows |->
              [j \in 1..Len(df.columns) |-> RowGet(getRow(df, i), df.columns[j])]]
           inOrder == SelectSeqBy(rowArrays, kept)
           filteredData == [i \in 1..Len(inOrder) |-> inOrder[Len(inOrder) + 1 - i]]
       IN IF \E i \in 1..df.rows : verdict[i] = "throw"
          THEN Effect(Err("ColumnError"), df)
          ELSE IF Len(filteredData) = 0
          THEN Effect(Ok(EmptyLike(df)), df)
          ELSE Effect(NodeDataFrame(filteredData, Columns(df.columns)), df)

\* filter(condition)
filter(df, condition) ==
  IF ~IsFunction(condition) THEN Effect(Err("ValidationError"), df)
  ELSE LET verdict == [i \in 1..df.rows |-> PredEval(condition, getRow(df, i))]
           kept == [i \in 1..df.rows |-> verdict[i] = "T"]
           rowArrays == [i \in 1..df.rows |->
              [j \in 1..Len(df.columns) |-> RowGet(getRow(df, i), df.columns[j])]]
           filteredData == SelectSeqBy(rowArrays, kept)
       IN IF \E i \in 1..df.rows : verdict[i] = "throw"
          THEN Effect(Err("ColumnError"), df)
          ELSE IF Len(filteredData) = 0
          THEN Effect(Ok(EmptyLike(df)), df)
          ELSE Effect(NodeDataFrame(filteredData, Columns(df.columns)), df)

(***************************************************************************)
(* apply, map, replace                                                     *)
(***************************************************************************)
\* variant: the stored row itself is written to (no copy is taken)
applyRowInPlace(row, columnName, fn) ==
  LET written == SetProp(row, columnName, FnEval(fn, Prop(row, columnName)))
  IN [row |-> written, newRow |-> written]

\* one step of apply's data.map: the stored row afterwards and the new row
applyRow(row, columnName, fn) ==
  LET newRow == SpreadCopy(row)
  IN [row |-> row, newRow |-> SetProp(newRow, columnName, FnEval(fn, Prop(row, columnName)))]

apply(df, columnName, fn) ==
  IF IndexOf(df.columns, columnName) = 0 THEN Effect(Err("ColumnError"), df)
  ELSE IF ~IsFunction(fn) THEN Effect(Err("ValidationError"), df)
  ELSE LET steps == [i \in 1..Len(df.data) |-> applyRow(df.data[i], columnName, fn)]
           after == [df EXCEPT !.data = [i \in 1..Len(df.data) |-> steps[i].row]]
           arrayData == [i \in 1..Len(steps) |-> ToArray(steps[i].newRow, df.columns)]
       IN IF \E i \in 1..Len(steps) : Prop(steps[i].newRow, columnName) = Thrown
          THEN Effect(Err("Error"), after)
          ELSE Effect(NodeDataFrame(arrayData, Columns(df.columns)), after)

\* one step of map's data.map: a fresh object filled column by column
mapRow(row, columns, fn) ==
  [arr |-> FALSE, f |-> [c \in Range(columns) |-> FnEval(fn, Prop(row, c))]]

map(df, fn) ==
  IF ~IsFunction(fn) THEN Effect(Err("ValidationError"), df)
  ELSE LET transformedData == [i \in 1..Len(df.data) |-> mapRow(df.data[i], df.columns, fn)]
           arrayData == [i \in 1..Len(df.data) |-> ToArray(transformedData[i], df.columns)]
       IN IF \E i \in 1..Len(df.data) : \E c \in Range(df.columns) :
                Prop(transformedData[i], c) = Thrown
          THEN Effect(Err("Error"), df)
          ELSE Effect(NodeDataFrame(arrayData, Columns(df.columns)), df)

\* one step of replace's data.map; columnName.given is FALSE for undefined
replaceRow(row, columns, oldValue, newValue, columnName) ==
  LET newRow == SpreadCopy(row)
      targets == IF columnName.given THEN {columnName.name} ELSE Range(columns)
      hit == {c \in targets : StrictEq(Prop(row, c), oldValue)}
  IN [row |-> row,
      newRow |-> [newRow EXCEPT !.f = [key \in (DOMAIN newRow.f) \cup hit |->
                                         IF key \in hit THEN newValue ELSE newRow.f[key]]]]

replace(df, oldValue, newValue, columnName) ==
  IF columnName.given /\ IndexOf(df.columns, columnName.name) = 0
  THEN Effect(Err("ColumnError"), df)
  ELSE LET steps == [i \in 1..Len(df.data) |->
                       replaceRow(df.data[i], df.columns, oldValue, newValue, columnName)]
           after == [df EXCEPT !.data = [i \in 1..Len(df.data) |-> steps[i].row]]
           arrayData == [i \in 1..Len(steps) |-> ToArray(steps[i].newRow, df.columns)]
       IN Effect(NodeDataFrame(arrayData, Columns(df.columns)), after)

(***************************************************************************)
(* Rational arithmetic on number values (rt = FALSE).                      *)
(***************************************************************************)
RatAdd(a, b) == Rat(a.n * b.d + b.n * a.d, a.d * b.d)

RatSub(a, b) == Rat(a.n * b.d - b.n * a.d, a.d * b.d)

RatMul(a, b) == Rat(a.n * b.n, a.d * b.d)

\* a / k for a positive integer k
RatDivInt(a, k) == Rat(a.n, a.d * k)

RatLess(a, b) == a.n * b.d < b.n * a.d

RECURSIVE RatSum(_)
\* values.reduce((a, b) => a + b, 0)
RatSum(values) ==
  IF Len(values) = 0 THEN Num(0) ELSE RatAdd(values[1], RatSum(Tail(values)))

IsSquare(k) == \E r \in 0..k : r * r = k

IntSqrt(k) == CHOOSE r \in 0..k : r * r = k

\* Math.sqrt of a non-negative rational: exact when it is rational, else
\* kept as the root of n/d
Sqrt(a) ==
  IF IsSquare(a.n) /\ IsSquare(a.d) THEN Rat(IntSqrt(a.n), IntSqrt(a.d))
  ELSE [t |-> "number", n |-> a.n, d |-> a.d, rt |-> TRUE,
        s |-> "sqrt(" \o a.s \o ")"]

(***************************************************************************)
(* GroupBy                                                                 *)
(***************************************************************************)
\* is s the canonical form of an array index (such property names are
\* enumerated first, in ascending order)
IsIndexKey(s) == \E i \in 0..MaxIndexKey : ToString(i) = s

IndexKeyValue(s) == CHOOSE i \in 0..MaxIndexKey : ToString(i) = s

RECURSIVE Distinct(_)
\* the elements of q without repetitions, in order of first occurrence
Distinct(q) ==
  IF Len(q) = 0 THEN <<>>
  ELSE LET init == Distinct(SubSeq(q, 1, Len(q) - 1))
       IN IF Includes(init, q[Len(q)]) THEN init ELSE Append(init, q[Len(q)])

RECURSIVE SortIndexKeys(_)
\* a set of index-like key values as a sequence, ascending
SortIndexKeys(ks) ==
  IF ks = {} THEN <<>>
  ELSE LET m == CHOOSE k \in ks : \A k2 \in ks : IndexKeyValue(k.s) <= IndexKeyValue(k2.s)
       IN <<m>> \o SortIndexKeys(ks \ {m})

\* for (const key in obj): the keys of a plain object given in insertion
\* order; index-like names come first, ascending, then the others
PropertyOrder(keys) ==
  LET isIdx == [i \in 1..Len(keys) |-> IsIndexKey(keys[i].s)]
      others == SelectSeqBy(keys, [i \in 1..Len(keys) |-> ~isIdx[i]])
  IN SortIndexKeys({keys[i] : i \in {j \in 1..Len(keys) : isIdx[j]}}) \o others

\* the key cell of a stored row, as GroupBy reads it
GroupCell(df, rowIndex, colName) ==
  LET row == df.data[rowIndex]
  IN IF row.arr THEN At(row, IndexOf(df.columns, colName)) ELSE Prop(row, colName)

\* variant: the key values of a row as they are stored, not as strings
RowKeyValues(df, rowIndex, groupingColumns) ==
  [j \in 1..Len(groupingColumns) |-> GroupCell(df, rowIndex, groupingColumns[j])]

\* String(value) of each grouping column of a row
RowKey(df, rowIndex, groupingColumns) ==
  [j \in 1..Len(groupingColumns) |->
     ToStringValue(GroupCell(df, rowIndex, groupingColumns[j]))]

\* property names every plain object inherits from Object.prototype (those
\* that occur as cell values here); groups[name] is then a function
InheritedNames == {"constructor"}

\* _createMultiColumnGroups on row rowIndex: at the last key column
\* current[keyStr] is an inherited function, which has no push
multiColumnRowThrows(df, rowIndex, groupingColumns) ==
  /\ Len(groupingColumns) > 1
  /\ RowKey(df, rowIndex, groupingColumns)[Len(groupingColumns)].s \in InheritedNames

\* the row's index is stored in the group structure: in the multi-column
\* case not when an earlier key column led into an inherited function, the
\* index then being stored on that function
storedInGroups(df, rowIndex, groupingColumns) ==
  \/ Len(groupingColumns) = 1
  \/ \A j \in 1..(Len(groupingColumns) - 1) :
        RowKey(df, rowIndex, groupingColumns)[j].s \notin InheritedNames

\* the Map of the single-column case: keys in insertion order
createSingleColumnGroups(df, groupingColumns) ==
  Distinct([i \in 1..df.rows |-> RowKey(df, i, groupingColumns)])

RECURSIVE extractGroupKeys(_, _, _)
\* the leaves of the nested object of the multi-column case, enumerated
\* level by level with for-in; tuples are the key tuples in insertion order
extractGroupKeys(tuples, depth, prefix) ==
  LET under == SelectSeqBy(tuples, [i \in 1..Len(tuples) |->
                   SubSeq(tuples[i], 1, Len(prefix)) = prefix])
      level == PropertyOrder(Distinct([i \in 1..Len(under) |-> under[i][Len(prefix) + 1]]))
  IN IF Len(prefix) = depth THEN <<prefix>>
     ELSE Flatten([i \in 1..Len(level) |->
                     extractGroupKeys(tuples, depth, Append(prefix, level[i]))])

\* _getGroupKeys(): the group keys in the order the aggregations visit them
getGroupKeys(df, groupingColumns) ==
  IF Len(groupingColumns) = 1 THEN createSingleColumnGroups(df, groupingColumns)
  ELSE IF df.rows = 0 \/ Len(groupingColumns) = 0 THEN <<>>
  ELSE LET stored == SelectSeqBy([i \in 1..df.rows |-> i],
                         [i \in 1..df.rows |-> storedInGroups(df, i, groupingColumns)])
       IN IF Len(stored) = 0 THEN <<>>
          ELSE extractGroupKeys(
                  Distinct([i \in 1..Len(stored) |-> RowKey(df, stored[i], groupingColumns)]),
                  Len(groupingColumns), <<>>)

\* _getRowIndicesForKey(groupKey): the rows of a group, ascending
getRowIndicesForKey(df, groupingColumns, groupKey) ==
  SelectSeqBy([i \in 1..df.rows |-> i],
              [i \in 1..df.rows |->
                 /\ storedInGroups(df, i, groupingColumns)
                 /\ \A j \in 1..Len(groupingColumns) :
                       RowKey(df, i, groupingColumns)[j].s = groupKey[j].s])

\* variant: only values of type number are taken
toNumericNumbersOnly(value) ==
  IF value.t = "number" THEN value ELSE Null

\* _toNumeric(value): a number value, or Null
toNumeric(value) ==
  IF value.t = "number" THEN value
  ELSE IF value.t = "string" /\ value.d # 0 THEN Rat(value.n, value.d)
  ELSE Null

RECURSIVE RatMin(_)
RatMin(values) ==
  IF Len(values) = 1 THEN values[1]
  ELSE LET m == RatMin(Tail(values)) IN IF RatLess(values[1], m) THEN values[1] ELSE m

RECURSIVE RatMax(_)
RatMax(values) ==
  IF Len(values) = 1 THEN values[1]
  ELSE LET m == RatMax(Tail(values)) IN IF RatLess(m, values[1]) THEN values[1] ELSE m

\* variant: the std of a single value is 0
computeAggregationStdZero(method, values) ==
  LET mean == RatDivInt(RatSum(values), Len(values))
  IN CASE method = "mean" -> mean
       [] method = "sum" -> RatSum(values)
       [] method = "min" -> RatMin(values)
       [] method = "max" -> RatMax(values)
       [] method = "std" ->
            IF Len(values) < 2 THEN Num(0)
            ELSE Sqrt(RatDivInt(
                   RatSum([i \in 1..Len(values) |->
                             RatMul(RatSub(values[i], mean), RatSub(values[i], mean))]),
                   Len(values) - 1))
       [] OTHER -> Null

\* _computeAggregation(method, values) on a non-empty list of numbers
computeAggregation(method, values) ==
  LET mean == RatDivInt(RatSum(values), Len(values))
  IN CASE method = "mean" -> mean
       [] method = "sum" -> RatSum(values)
       [] method = "min" -> RatMin(values)
       [] method = "max" -> RatMax(values)
       [] method = "std" ->
            IF Len(values) < 2 THEN Null
            ELSE Sqrt(RatDivInt(
                   RatSum([i \in 1..Len(values) |->
                             RatMul(RatSub(values[i], mean), RatSub(values[i], mean))]),
                   Len(values) - 1))
       [] OTHER -> Null

\* _buildResultRow(groupKey, aggregations): aggregations is a sequence of
\* [name, value] in assignment order
buildResultRow(groupingColumns, groupKey, aggregations) ==
  LET keyNames == Range(groupingColumns)
      aggNames == {aggregations[i].name : i \in 1..Len(aggregations)}
  IN [arr |-> FALSE,
      f |-> [c \in keyNames \cup aggNames |->
               IF c \in aggNames
               THEN aggregations[CHOOSE i \in 1..Len(aggregations) :
                                    aggregations[i].name = c].value
               ELSE groupKey[LastIndexOf(groupingColumns, c)]]]

\* variant: without results the empty Table is returned as constructed
createResultDataFrameColumnless(df, groupingColumns, results, isCount) ==
  LET resultColumns ==
        groupingColumns \o
        (IF isCount THEN <<"count">>
         ELSE SelectSeqBy(df.columns, [i \in 1..Len(df.columns) |->
                                          ~Includes(groupingColumns, df.columns[i])]))
      arrayResults == [i \in 1..Len(results) |->
         [j \in 1..Len(resultColumns) |->
            IF Prop(results[i], resultColumns[j]) # Undefined
            THEN Prop(results[i], resultColumns[j]) ELSE Null]]
  IN IF Len(results) = 0
     THEN NodeDataFrame(<<>>, NoColumns)
     ELSE NodeDataFrame(arrayResults, Columns(resultColumns))

\* _createResultDataFrame(results, options)
createResultDataFrame(df, groupingColumns, results, isCount) ==
  LET resultColumns ==
        groupingColumns \o
        (IF isCount THEN <<"count">>
         ELSE SelectSeqBy(df.columns, [i \in 1..Len(df.columns) |->
                                          ~Includes(groupingColumns, df.columns[i])]))
      arrayResults == [i \in 1..Len(results) |->
         [j \in 1..Len(resultColumns) |->
            IF Prop(results[i], resultColumns[j]) # Undefined
            THEN Prop(results[i], resultColumns[j]) ELSE Null]]
  IN IF Len(results) = 0
     THEN LET emptyDf == NodeDataFrame(<<>>, NoColumns).tbl
          IN Ok([emptyDf EXCEPT !.columns = resultColumns, !.cols = Len(resultColumns)])
     ELSE NodeDataFrame(arrayResults, Columns(resultColumns))

\* count()
count(df, groupingColumns) ==
  LET groupKeys == getGroupKeys(df, groupingColumns)
      results == [g \in 1..Len(groupKeys) |->
         buildResultRow(groupingColumns, groupKeys[g],
            <<[name |-> "count",
               value |-> Num(Len(getRowIndicesForKey(df, groupingColumns, groupKeys[g])))]>>)]
  IN createResultDataFrame(df, groupingColumns, results, TRUE)

\* the aggregations object of one group: the non-key columns that hold at
\* least one numeric value, in column order
Aggregations(df, groupingColumns, rowIndices, method) ==
  LET numericValues(colIndex) ==
        LET values == [r \in 1..Len(rowIndices) |->
               LET row == df.data[rowIndices[r]]
               IN IF row.arr THEN At(row, colIndex) ELSE Prop(row, df.columns[colIndex])]
            nums == [r \in 1..Len(values) |-> toNumeric(values[r])]
        IN SelectSeqBy(nums, [r \in 1..Len(nums) |-> nums[r] # Null])
      used == SelectSeqBy([c \in 1..Len(df.columns) |-> c],
                [c \in 1..Len(df.columns) |->
                   /\ ~Includes(groupingColumns, df.columns[c])
                   /\ Len(numericValues(c)) > 0])
  IN [a \in 1..Len(used) |->
        [name |-> df.columns[used[a]],
         value |-> computeAggregation(method, numericValues(used[a]))]]

\* _aggregateNumeric(method)
aggregateNumeric(df, groupingColumns, method) ==
  LET groupKeys == getGroupKeys(df, groupingColumns)
      results == [g \in 1..Len(groupKeys) |->
         buildResultRow(groupingColumns, groupKeys[g],
            Aggregations(df, groupingColumns,
                         getRowIndicesForKey(df, groupingColumns, groupKeys[g]), method))]
  IN createResultDataFrame(df, groupingColumns, results, FALSE)

\* rowIndices of the aggregation loops: per group, in result order, the
\* source rows of the group
groupRowIndices(df, groupingColumns) ==
  LET groupKeys == getGroupKeys(df, groupingColumns)
  IN [g \in 1..Len(groupKeys) |->
        [rows |-> getRowIndicesForKey(df, groupingColumns, groupKeys[g])]]

\* df.groupBy(groupingColumns).<verb>(); groupingColumns is
\* [kind |-> "string" | "array" | "other", names |-> the name(s)]
groupByAggregate(df, groupingColumns, verb) ==
  IF groupingColumns.kind = "other" THEN Effect(Err("ValidationError"), df)
  ELSE IF ~validateColumnsExist(groupingColumns.names, df.columns)
  THEN Effect(Err("ColumnError"), df)
  ELSE IF \E i \in 1..df.rows : multiColumnRowThrows(df, i, groupingColumns.names)
  THEN Effect(Err("TypeError"), df)
  ELSE LET made == IF verb = "count" THEN count(df, groupingColumns.names)
                   ELSE aggregateNumeric(df, groupingColumns.names, verb)
       IN Effect(IF IsOk(made)
                 THEN [made EXCEPT !.prov = groupRowIndices(df, groupingColumns.names)]
                 ELSE made, df)

(***************************************************************************)
(* Series statistics (Series, typeDetection).  The values of the model are *)
(* null, undefined, numbers and strings; a Series method gives a value or  *)
(* Thrown.                                                                 *)
(***************************************************************************)
NaN == [t |-> "number", n |-> 0, d |-> 0, rt |-> FALSE, s |-> "NaN"]

\* isNull(value)
isNull(value) == value.t \in {"null", "undefined"}

\* isNumericString(value): parseFloat reads a number and the whole string
\* is the decimal form of a finite number
isNumericString(value) ==
  /\ value.t = "string"
  /\ value.d # 0
  /\ value.s = Rat(value.n, value.d).s

\* isNumeric(value)
isNumeric(value) ==
  IF value.t = "number" THEN value.d # 0 ELSE isNumericString(value)

\* detectType(value)
detectType(value) ==
  IF isNull(value) THEN "null"
  ELSE IF isNumeric(value) THEN "numeric"
  ELSE IF value.t = "string" THEN "string"
  ELSE "unknown"

\* inferArrayType(array)
inferArrayType(array) ==
  LET types == {detectType(array[i]) : i \in 1..Len(array)} \ {"null"}
  IN IF types = {} THEN "null"
     ELSE IF Cardinality(types) = 1 THEN CHOOSE ty \in types : TRUE
     ELSE "mixed"

\* toNumeric(value) of typeDetection
typeDetectionToNumeric(value) ==
  IF isNull(value) THEN Null
  ELSE IF value.t = "number" THEN (IF value.d = 0 THEN Null ELSE value)
  ELSE IF isNumericString(value) THEN Rat(value.n, value.d)
  ELSE Null

\* this._data.map(v => toNumeric(v)).filter(v => v !== null)
SeriesNumericValues(data) ==
  LET nums == [i \in 1..Len(data) |-> typeDetectionToNumeric(data[i])]
  IN SelectSeqBy(nums, [i \in 1..Len(nums) |-> nums[i] # Null])

\* this._data.filter(v => !isNull(v))
SeriesNonNullValues(data) ==
  SelectSeqBy(data, [i \in 1..Len(data) |-> ~isNull(data[i])])

\* the strings of the model in the order of their UTF-16 code units
CodeUnitOrder == <<"1", "3", "3x", "constructor">>

\* Number(value)
ToNumber(value) ==
  IF value.t = "number" THEN value
  ELSE IF value.t = "null" THEN Num(0)
  ELSE IF isNumericString(value) THEN Rat(value.n, value.d)
  ELSE NaN

\* a < b
JSLess(a, b) ==
  IF a.t = "string" /\ b.t = "string"
  THEN IndexOf(CodeUnitOrder, a.s) < IndexOf(CodeUnitOrder, b.s)
  ELSE LET na == ToNumber(a)
           nb == ToNumber(b)
       IN na.d # 0 /\ nb.d # 0 /\ RatLess(na, nb)

RECURSIVE ReduceMin(_, _)
\* values.reduce((min, val) => val < min ? val : min), min the accumulator
ReduceMin(min, values) ==
  IF Len(values) = 0 THEN min
  ELSE ReduceMin(IF JSLess(values[1], min) THEN values[1] ELSE min, Tail(values))

RECURSIVE ReduceMax(_, _)
\* values.reduce((max, val) => val > max ? val : max), max the accumulator
ReduceMax(max, values) ==
  IF Len(values) = 0 THEN max
  ELSE ReduceMax(IF JSLess(max, values[1]) THEN values[1] ELSE max, Tail(values))

\* new Series(data).mean()
SeriesMean(data) ==
  LET numericValues == SeriesNumericValues(data)
  IN IF Len(numericValues) = 0 THEN Thrown
     ELSE RatDivInt(RatSum(numericValues), Len(numericValues))

\* new Series(data).min()
SeriesMin(data) ==
  LET nonNullValues == SeriesNonNullValues(data)
      numericValues == SeriesNumericValues(nonNullValues)
  IN IF Len(nonNullValues) = 0 THEN Thrown
     ELSE IF inferArrayType(data) = "numeric"
     THEN (IF Len(numericValues) = 0 THEN Thrown ELSE RatMin(numericValues))
     ELSE ReduceMin(nonNullValues[1], Tail(nonNullValues))

\* new Series(data).max()
SeriesMax(data) ==
  LET nonNullValues == SeriesNonNullValues(data)
      numericValues == SeriesNumericValues(nonNullValues)
  IN IF Len(nonNullValues) = 0 THEN Thrown
     ELSE IF inferArrayType(data) = "numeric"
     THEN (IF Len(numericValues) = 0 THEN Thrown ELSE RatMax(numericValues))
     ELSE ReduceMax(nonNullValues[1], Tail(nonNullValues))

\* new Series(data).std()
SeriesStd(data) ==
  LET numericValues == SeriesNumericValues(data)
      mean == RatDivInt(RatSum(numericValues), Len(numericValues))
      variance ==
        RatDivInt(RatSum([i \in 1..Len(numericValues) |->
                            RatMul(RatSub(numericValues[i], mean),
                                   RatSub(numericValues[i], mean))]),
                  Len(numericValues) - 1)
  IN IF Len(numericValues) < 2 THEN Thrown ELSE Sqrt(variance)

\* the Series method of a name
SeriesStatistic(method, data) ==
  CASE method = "mean" -> SeriesMean(data)
    [] method = "min" -> SeriesMin(data)
    [] method = "max" -> SeriesMax(data)
    [] method = "std" -> SeriesStd(data)
    [] OTHER -> Thrown

(***************************************************************************)
(* merge                                                                   *)
(***************************************************************************)
\* JSON.stringify(joinKeys.map(key => df.getCell(i, key)))
KeyStr(df, rowIndex, joinKeys) ==
  JSONStringify([j \in 1..Len(joinKeys) |-> getCell(df, rowIndex, joinKeys[j])])

\* leftMap / rightMap: entries in insertion order, each with the rows that
\* share the key, ascending
buildKeyMap(df, joinKeys) ==
  LET keys == Distinct([i \in 1..df.rows |-> KeyStr(df, i, joinKeys)])
  IN [k \in 1..Len(keys) |->
        [key |-> keys[k],
         idx |-> SelectSeqBy([i \in 1..df.rows |-> i],
                             [i \in 1..df.rows |-> KeyStr(df, i, joinKeys) = keys[k]])]]

MapHas(m, key) == \E k \in 1..Len(m) : m[k].key = key

MapGet(m, key) == m[CHOOSE k \in 1..Len(m) : m[k].key = key].idx

\* right columns appended to the left ones
RightColumnsToAdd(right, joinKeys) ==
  SelectSeqBy(right.columns, [i \in 1..Len(right.columns) |->
                                ~Includes(joinKeys, right.columns[i])])

ConflictingColumns(left, right, joinKeys) ==
  {c \in Range(RightColumnsToAdd(right, joinKeys)) : Includes(left.columns, c)}

\* variant: only the right copy of a conflicting name gets its suffix
mergedColumnsRightSuffixOnly(left, right, joinKeys, suffixes) ==
  LET add == RightColumnsToAdd(right, joinKeys)
  IN left.columns
     \o
     [i \in 1..Len(add) |->
        IF add[i] \in ConflictingColumns(left, right, joinKeys) THEN add[i] \o suffixes[2]
        ELSE add[i]]

\* newColumns
mergedColumns(left, right, joinKeys, suffixes) ==
  LET add == RightColumnsToAdd(right, joinKeys)
      conflicting == ConflictingColumns(left, right, joinKeys)
  IN [i \in 1..Len(left.columns) |->
        IF left.columns[i] \in conflicting THEN left.columns[i] \o suffixes[1]
        ELSE left.columns[i]]
     \o
     [i \in 1..Len(add) |->
        IF add[i] \in conflicting THEN add[i] \o suffixes[2] ELSE add[i]]

\* buildMergedRow(leftIdx, rightIdx); rightIdx = 0 stands for null
buildMergedRow(left, right, joinKeys, leftIdx, rightIdx) ==
  LET leftRow == getRow(left, leftIdx)
      add == RightColumnsToAdd(right, joinKeys)
  IN [i \in 1..Len(left.columns) |-> RowGet(leftRow, left.columns[i])]
     \o
     [i \in 1..Len(add) |->
        IF rightIdx # 0 THEN RowGet(getRow(right, rightIdx), add[i]) ELSE Null]

\* the row the right join pushes for a right row without a left match
rightOnlyRow(left, right, joinKeys, rightIdx) ==
  LET add == RightColumnsToAdd(right, joinKeys)
  IN [i \in 1..Len(left.columns) |-> Null]
     \o [i \in 1..Len(add) |-> RowGet(getRow(right, rightIdx), add[i])]

\* variant: the join-key columns are left null as well
outerTailRowNullKeys(left, right, joinKeys, rightIdx) ==
  LET add == RightColumnsToAdd(right, joinKeys)
  IN [i \in 1..Len(left.columns) |-> Null]
     \o [i \in 1..Len(add) |-> RowGet(getRow(right, rightIdx), add[i])]

\* the row the outer join pushes for a right row without a left match
outerTailRow(left, right, joinKeys, rightIdx) ==
  LET add == RightColumnsToAdd(right, joinKeys)
      rightRow == getRow(right, rightIdx)
  IN [i \in 1..Len(left.columns) |->
        IF Includes(joinKeys, left.columns[i]) THEN RowGet(rightRow, left.columns[i])
        ELSE Null]
     \o [i \in 1..Len(add) |-> RowGet(rightRow, add[i])]

Pair(l, r, via) == [l |-> l, r |-> r, via |-> via]

\* variant: each left row is paired with the first matching right row only
innerPairsFirstMatch(left, right, joinKeys) ==
  LET leftMap == buildKeyMap(left, joinKeys)
      rightMap == buildKeyMap(right, joinKeys)
  IN Flatten([k \in 1..Len(leftMap) |->
        IF MapHas(rightMap, leftMap[k].key)
        THEN [li \in 1..Len(leftMap[k].idx) |->
                Pair(leftMap[k].idx[li], MapGet(rightMap, leftMap[k].key)[1], "built")]
        ELSE <<>>])

\* the pushes of the inner branch, in order
innerPairs(left, right, joinKeys) ==
  LET leftMap == buildKeyMap(left, joinKeys)
      rightMap == buildKeyMap(right, joinKeys)
  IN Flatten([k \in 1..Len(leftMap) |->
        IF MapHas(rightMap, leftMap[k].key)
        THEN LET rightIndices == MapGet(rightMap, leftMap[k].key)
             IN Flatten([li \in 1..Len(leftMap[k].idx) |->
                   [ri \in 1..Len(rightIndices) |->
                      Pair(leftMap[k].idx[li], rightIndices[ri], "built")]])
        ELSE <<>>])

\* variant: a left row without a match is dropped
leftPairsMatchedOnly(left, right, joinKeys) ==
  LET rightMap == buildKeyMap(right, joinKeys)
  IN Flatten([i \in 1..left.rows |->
        IF MapHas(rightMap, KeyStr(left, i, joinKeys))
        THEN LET rightIndices == MapGet(rightMap, KeyStr(left, i, joinKeys))
             IN [ri \in 1..Len(rightIndices) |-> Pair(i, rightIndices[ri], "built")]
        ELSE <<>>])

\* the pushes of the left branch (and of the first loop of the outer one)
leftPairs(left, right, joinKeys) ==
  LET rightMap == buildKeyMap(right, joinKeys)
  IN Flatten([i \in 1..left.rows |->
        IF MapHas(rightMap, KeyStr(left, i, joinKeys))
        THEN LET rightIndices == MapGet(rightMap, KeyStr(left, i, joinKeys))
             IN [ri \in 1..Len(rightIndices) |-> Pair(i, rightIndices[ri], "built")]
        ELSE <<Pair(i, 0, "built")>>])

\* the pushes of the right branch
rightPairs(left, right, joinKeys) ==
  LET leftMap == buildKeyMap(left, joinKeys)
  IN Flatten([i \in 1..right.rows |->
        IF MapHas(leftMap, KeyStr(right, i, joinKeys))
        THEN LET leftIndices == MapGet(leftMap, KeyStr(right, i, joinKeys))
             IN [li \in 1..Len(leftIndices) |-> Pair(leftIndices[li], i, "built")]
        ELSE <<Pair(0, i, "rightOnly")>>])

\* variant: the unmatched right rows are visited in row order
outerTailPairsRowOrder(left, right, joinKeys) ==
  LET processedKeys == {KeyStr(left, i, joinKeys) : i \in 1..left.rows}
  IN Flatten([i \in 1..right.rows |->
        IF KeyStr(right, i, joinKeys) \notin processedKeys
        THEN <<Pair(0, i, "outerTail")>>
        ELSE <<>>])

\* the pushes of the second loop of the outer branch
outerTailPairs(left, right, joinKeys) ==
  LET rightMap == buildKeyMap(right, joinKeys)
      processedKeys == {KeyStr(left, i, joinKeys) : i \in 1..left.rows}
  IN Flatten([k \in 1..Len(rightMap) |->
        IF rightMap[k].key \notin processedKeys
        THEN [ri \in 1..Len(rightMap[k].idx) |-> Pair(0, rightMap[k].idx[ri], "outerTail")]
        ELSE <<>>])

mergePairs(left, right, joinKeys, how) ==
  CASE how = "inner" -> innerPairs(left, right, joinKeys)
    [] how = "left" -> leftPairs(left, right, joinKeys)
    [] how = "right" -> rightPairs(left, right, joinKeys)
    [] how = "outer" -> leftPairs(left, right, joinKeys) \o outerTailPairs(left, right, joinKeys)
    [] OTHER -> <<>>

ValidJoinTypes == {"inner", "left", "right", "outer"}

\* the validation of onKey, how and suffixes: "" when they pass
mergeParameterError(left, right, joinKeys, how, suffixes) ==
  IF \E i \in 1..Len(joinKeys) :
        ~Includes(left.columns, joinKeys[i]) \/ ~Includes(right.columns, joinKeys[i])
  THEN "ColumnError"
  ELSE IF how \notin ValidJoinTypes THEN "ValidationError"
  ELSE IF ~suffixes.arr \/ Len(suffixes.v) # 2 THEN "ValidationError"
  ELSE ""

\* the result of the join proper, both sides having rows
mergeRows(left, right, joinKeys, how, suffixes) ==
  LET pairs == mergePairs(left, right, joinKeys, how)
      mergedData == [p \in 1..Len(pairs) |->
         CASE pairs[p].via = "built" ->
                buildMergedRow(left, right, joinKeys, pairs[p].l, pairs[p].r)
           [] pairs[p].via = "rightOnly" -> rightOnlyRow(left, right, joinKeys, pairs[p].r)
           [] OTHER -> outerTailRow(left, right, joinKeys, pairs[p].r)]
      made == NodeDataFrame(mergedData,
                            Columns(mergedColumns(left, right, joinKeys, suffixes.v)))
  IN IF IsOk(made)
     THEN [made EXCEPT !.prov = [p \in 1..Len(pairs) |-> [l |-> pairs[p].l, r |-> pairs[p].r]]]
     ELSE made

\* an input returned as the result
Returned(df, alias) ==
  [kind |-> "table", err |-> "", alias |-> alias, tbl |-> df,
   prov |-> [i \in 1..df.rows |->
               IF alias = "this" THEN [l |-> i, r |-> 0] ELSE [l |-> 0, r |-> i]]]

\* the early returns for inputs without rows; kind = "none" when there is
\* no early return
emptyShortCircuit(left, right, how) ==
  IF left.rows = 0 /\ right.rows = 0 THEN NodeDataFrame(<<>>, NoColumns)
  ELSE IF left.rows = 0
  THEN IF how = "right" \/ how = "outer" THEN Returned(right, "other")
       ELSE NodeDataFrame(<<>>, NoColumns)
  ELSE IF right.rows = 0
  THEN IF how = "left" \/ how = "outer" THEN Returned(left, "this")
       ELSE NodeDataFrame(<<>>, NoColumns)
  ELSE [Err("") EXCEPT !.kind = "none"]

\* left.merge(right, onKey, how, suffixes); onKey is [arr, names], suffixes
\* is [arr, v]
merge(left, right, onKey, how, suffixes) ==
  LET early == emptyShortCircuit(left, right, how)
      joinKeys == onKey.names
      bad == mergeParameterError(left, right, joinKeys, how, suffixes)
  IN IF early.kind # "none" THEN early
     ELSE IF bad # "" THEN Err(bad)
     ELSE mergeRows(left, right, joinKeys, how, suffixes)

(***************************************************************************)
(* concat                                                                  *)
(***************************************************************************)
\* variant: a cell of a column the source lacks is left undefined
concatVerticalMissingUndefined(dataFrames) ==
  LET allColumns == Distinct(Flatten([d \in 1..Len(dataFrames) |-> dataFrames[d].columns]))
      concatenatedData == Flatten([d \in 1..Len(dataFrames) |->
         [i \in 1..dataFrames[d].rows |->
            [j \in 1..Len(allColumns) |->
               RowGet(getRow(dataFrames[d], i), allColumns[j])]]])
  IN IF Len(allColumns) = 0 THEN NodeDataFrame(<<>>, NoColumns)
     ELSE NodeDataFrame(concatenatedData, Columns(allColumns))

\* axis 0
concatVertical(dataFrames) ==
  LET allColumns == Distinct(Flatten([d \in 1..Len(dataFrames) |-> dataFrames[d].columns]))
      concatenatedData == Flatten([d \in 1..Len(dataFrames) |->
         [i \in 1..dataFrames[d].rows |->
            [j \in 1..Len(allColumns) |->
               IF RowGet(getRow(dataFrames[d], i), allColumns[j]) # Undefined
               THEN RowGet(getRow(dataFrames[d], i), allColumns[j])
               ELSE Null]]])
  IN IF Len(allColumns) = 0 THEN NodeDataFrame(<<>>, NoColumns)
     ELSE NodeDataFrame(concatenatedData, Columns(allColumns))

\* axis 1; a row-count mismatch is reported with the numbers of the message
\* (the DataFrame numbers count from 0)
concatHorizontal(dataFrames) ==
  LET nonEmptyDataFrames == SelectSeqBy(dataFrames,
         [d \in 1..Len(dataFrames) |-> dataFrames[d].rows > 0])
      numRows == nonEmptyDataFrames[1].rows
      allColumns == Flatten([d \in 1..Len(nonEmptyDataFrames) |-> nonEmptyDataFrames[d].columns])
      concatenatedData == [i \in 1..numRows |->
         Flatten([d \in 1..Len(nonEmptyDataFrames) |->
            [j \in 1..Len(nonEmptyDataFrames[d].columns) |->
               RowGet(getRow(nonEmptyDataFrames[d], i), nonEmptyDataFrames[d].columns[j])]])]
  IN IF Len(nonEmptyDataFrames) = 0 THEN NodeDataFrame(<<>>, NoColumns)
     ELSE IF \E d \in 2..Len(nonEmptyDataFrames) : nonEmptyDataFrames[d].rows # numRows
     THEN LET d == CHOOSE d \in 2..Len(nonEmptyDataFrames) :
                     /\ nonEmptyDataFrames[d].rows # numRows
                     /\ \A e \in 2..(d - 1) : nonEmptyDataFrames[e].rows = numRows
          IN [Err("ValidationError") EXCEPT
                !.prov = <<[index |-> d - 1, actualRows |-> nonEmptyDataFrames[d].rows,
                            firstIndex |-> 0, expectedRows |-> numRows]>>]
     ELSE NodeDataFrame(concatenatedData, Columns(allColumns))

\* DataFrame.concat(dataFrames, axis)
concat(dataFrames, axis) ==
  IF Len(dataFrames) = 0 THEN NodeDataFrame(<<>>, NoColumns)
  ELSE IF axis # 0 /\ axis # 1 THEN Err("ValidationError")
  ELSE IF axis = 0 THEN concatVertical(dataFrames)
  ELSE concatHorizontal(dataFrames)

(***************************************************************************)
(* The inputs of the checked instances.                                    *)
(***************************************************************************)
\* cell values of a key column / of another column
KeyVals == {Num(1), NumStr(1)}

PayVals == {Num(1), Null}

\* column lists of two columns; the key column is "k", or the first one
\* when no names are given
IsKeyPosition(layout, j) ==
  IF layout.given THEN layout.names[j] = "k" ELSE j = 1

\* the rows the Tables are filled from: a number key with either payload, a
\* string key with the payload 1
RowsFor(layout) ==
  {row \in {<<x, y>> : x \in (IF IsKeyPosition(layout, 1) THEN KeyVals ELSE PayVals),
                       y \in (IF IsKeyPosition(layout, 2) THEN KeyVals ELSE PayVals)} :
     ~(NumStr(1) \in Range(row) /\ Null \in Range(row))}

DataLists(layout, maxRows) == UNION {[1..n -> RowsFor(layout)] : n \in 0..maxRows}

TablesOf(layouts, maxRows) ==
  UNION {{NodeDataFrame(d, layout).tbl : d \in DataLists(layout, maxRows)} :
           layout \in layouts}

LeftLayouts == {Columns(<<"k", "a">>), NoColumns}

RightLayouts == {Columns(<<"k", "a">>), Columns(<<"b", "k">>)}

NoResult == [Err("") EXCEPT !.kind = "none"]

NoOp == [name |-> "none", args |-> <<>>]

\* arguments of the operations
Array(names) == [arr |-> TRUE, names |-> names]

NotArray(names) == [arr |-> FALSE, names |-> names]

SelectArgs == {Array(<<>>), Array(<<"k">>), Array(<<"a", "k">>), Array(<<"k", "k">>),
               Array(<<"1", "0">>), Array(<<"z">>), NotArray(<<"k">>)}

FilterArgs == {"all", "none", "kIsNumber", "aIsNull", "throws", "notfn"}

FnArgs == {"same", "toNull", "toStr", "throws", "notfn"}

ColumnArgs == {"k", "a", "z"}

ReplaceColumnArgs == {[given |-> FALSE, name |-> ""], [given |-> TRUE, name |-> "a"],
                      [given |-> TRUE, name |-> "z"]}

GroupByArgs == {[kind |-> "string", names |-> <<"k">>],
                [kind |-> "array", names |-> <<"k", "a">>],
                [kind |-> "array", names |-> <<"a">>],
                [kind |-> "array", names |-> <<>>],
                [kind |-> "string", names |-> <<"z">>],
                [kind |-> "other", names |-> <<>>]}

Verbs == {"count", "sum", "mean", "min", "max", "std"}

Suffixes(v) == [arr |-> TRUE, v |-> v]

DefaultSuffixes == Suffixes(<<"_x", "_y">>)

MergeArgs ==
  {[onKey |-> k, how |-> h, suffixes |-> DefaultSuffixes] :
     k \in {NotArray(<<"k">>), Array(<<"k", "a">>)}, h \in ValidJoinTypes}
  \cup {[onKey |-> NotArray(<<"z">>), how |-> h, suffixes |-> DefaultSuffixes] :
          h \in {"inner", "outer"}}
  \cup {[onKey |-> NotArray(<<"k">>), how |-> "cross", suffixes |-> DefaultSuffixes],
        [onKey |-> NotArray(<<"k">>), how |-> "left", suffixes |-> Suffixes(<<"_x">>)],
        [onKey |-> NotArray(<<"k">>), how |-> "right",
         suffixes |-> [arr |-> FALSE, v |-> <<"_x", "_y">>]]}

ConcatAxes == {0, 1, 2}

ConstructArgs ==
  {[dataList |-> d, columns |-> c] :
     d \in DataLists(NoColumns, 1) \cup {<<<<Num(1), Null>>, <<Num(1)>>>>},
     c \in {NoColumns, Columns(<<"k", "a">>), Columns(<<"k", "k">>), Columns(<<"k">>),
            Columns(<<"k", "">>), Columns(<<"k", "<7>">>)}}

(***************************************************************************)
(* The state machine: two Tables, and the last operation with its result.  *)
(***************************************************************************)
\* the Tables the operations are called on
ThisTables == TablesOf(LeftLayouts, MaxRows)

\* a Table of one row without columns, as select([]) returns
NoColumnsOneRow == NodeDataFrame(<<<<>>>>, Columns(<<>>)).tbl

OtherTables == TablesOf(RightLayouts, MaxOtherRows) \cup {NoColumnsOneRow}

LeftTables == TablesOf({Columns(<<"k", "a">>)}, MaxLeftRows)

RightTables == TablesOf(RightLayouts, MaxRightRows)

\* the rows of the Tables that are grouped: key column k, value column a
GroupRows ==
  {<<Num(1), Num(1)>>, <<NumStr(1), NumStr(3)>>, <<Num(1), Null>>,
   <<Str("constructor"), Num(1)>>, <<Str("constructor"), Null>>,
   <<Num(1), Str("constructor")>>, <<Num(1), PrefixNumStr(3, "x")>>}

GroupTables ==
  {NodeDataFrame(d, Columns(<<"k", "a">>)).tbl :
     d \in UNION {[1..n -> GroupRows] : n \in 0..MaxGroupRows}}

\* the names setDataForColumns never turns into a column accessor
reservedNames ==
  {"columns", "index", "data", "rows", "cols", "out", "show", "getRow", "getCell",
   "setNewAttrib", "setDataForColumns"}

\* the methods of the class that a Table is asked for by name
MethodNames == {"select", "filter", "groupBy", "merge", "apply", "map", "replace"}

\* setDataForColumns defines one accessor per column name on the prototype all
\* Tables share; proto holds those that take the place of a method of the class
Defines(r) ==
  IF IsOk(r) THEN (Range(r.tbl.columns) \ reservedNames) \cap MethodNames ELSE {}

\* the ___<column>___ arrays cached on this Table; none before the first access
NoAttribs == [c \in {} |-> <<>>]

\* df.<method>(...): the name is looked up on the prototype first, and an
\* accessor found there yields a Series, which is not callable
Called(method, r) == IF method \in proto THEN Err("TypeError") ELSE r

Init ==
  /\ this \in ThisTables
  /\ other \in OtherTables
  /\ res = NoResult
  /\ op = NoOp
  /\ attribs = NoAttribs
  /\ proto = {}

InitMerge ==
  /\ this \in LeftTables
  /\ other \in RightTables
  /\ this.rows + other.rows <= MaxMergeRows
  /\ res = NoResult
  /\ op = NoOp
  /\ attribs = NoAttribs
  /\ proto = {}

\* the lists of Tables handed to concat
ConcatFrames == {"this,other", "other,this", "this", "empty,this,other", ""}

DataFramesOf(frames, a, b) ==
  CASE frames = "this,other" -> <<a, b>>
    [] frames = "other,this" -> <<b, a>>
    [] frames = "this" -> <<a>>
    [] frames = "empty,this,other" -> <<NodeDataFrame(<<>>, NoColumns).tbl, a, b>>
    [] OTHER -> <<>>

Construct ==
  /\ op.name = NoOp.name
  /\ \E a \in ConstructArgs :
    /\ res' = NodeDataFrame(a.dataList, a.columns)
    /\ op' = [name |-> "construct", args |-> a]
    /\ proto' = proto \cup Defines(res')
    /\ UNCHANGED <<this, other, attribs>>

Select ==
  /\ op.name = NoOp.name
  /\ \E a \in SelectArgs :
    LET e == select(this, a)
    IN /\ res' = Called("select", e.out)
       /\ this' = e.this
       /\ op' = [name |-> "select", args |-> a]
       /\ proto' = proto \cup Defines(res')
       /\ UNCHANGED <<other, attribs>>

Filter ==
  /\ op.name = NoOp.name
  /\ \E a \in FilterArgs :
    LET e == filter(this, a)
    IN /\ res' = Called("filter", e.out)
       /\ this' = e.this
       /\ op' = [name |-> "filter", args |-> a]
       /\ proto' = proto \cup Defines(res')
       /\ UNCHANGED <<other, attribs>>

\* this.filter(p).filter(q) with two functions
FilterChain ==
  /\ op.name = NoOp.name
  /\ \E p \in Conditions, q \in Conditions :
    LET first == filter(this, p)
        second == IF IsOk(first.out) THEN filter(first.out.tbl, q).out ELSE first.out
    IN /\ res' = Called("filter", second)
       /\ this' = first.this
       /\ op' = [name |-> "filterChain", args |-> [p |-> p, q |-> q]]
       /\ proto' = proto \cup Defines(res')
       /\ UNCHANGED <<other, attribs>>

\* the verbs called on a groupBy of a filtered Table
ThenVerbs == {"count", "mean"}

\* the conditions of the filter that is followed by another operation: one
\* that keeps no row of any Table, two that keep none of some Tables
ThenConditions == {"none", "kIsNumber", "aIsNull"}

\* the column lists the filtered Table is asked for
ThenSelectArgs == {Array(<<>>), Array(<<"k">>), Array(<<"a", "k">>), Array(<<"1", "0">>)}

\* the grouping columns the filtered Table is grouped by
ThenGroupByArgs == {[kind |-> "string", names |-> <<"k">>],
                    [kind |-> "array", names |-> <<"k", "a">>],
                    [kind |-> "array", names |-> <<"a">>]}

\* this.filter(p).select(a) and this.filter(p).groupBy(g).<verb>()
FilterThen ==
  /\ op.name = NoOp.name
  /\ \E p \in ThenConditions :
    LET first == filter(this, p)
    IN /\ \/ \E a \in ThenSelectArgs :
             /\ res' = Called("filter",
                         IF IsOk(first.out)
                         THEN Called("select", select(first.out.tbl, a).out)
                         ELSE first.out)
             /\ op' = [name |-> "filterThen",
                       args |-> [p |-> p, then |-> "select", arg |-> a, verb |-> ""]]
          \/ \E g \in ThenGroupByArgs, verb \in ThenVerbs :
             /\ res' = Called("filter",
                         IF IsOk(first.out)
                         THEN Called("groupBy", groupByAggregate(first.out.tbl, g, verb).out)
                         ELSE first.out)
             /\ op' = [name |-> "filterThen",
                       args |-> [p |-> p, then |-> "groupBy", arg |-> g, verb |-> verb]]
       /\ this' = first.this
       /\ proto' = proto \cup Defines(res')
       /\ UNCHANGED <<other, attribs>>

Apply ==
  /\ op.name = NoOp.name
  /\ \E c \in ColumnArgs, fn \in FnArgs :
    LET e == apply(this, c, fn)
    IN /\ res' = Called("apply", e.out)
       /\ this' = e.this
       /\ op' = [name |-> "apply", args |-> [columnName |-> c, fn |-> fn]]
       /\ proto' = proto \cup Defines(res')
       /\ UNCHANGED <<other, attribs>>

Map ==
  /\ op.name = NoOp.name
  /\ \E fn \in FnArgs :
    LET e == map(this, fn)
    IN /\ res' = Called("map", e.out)
       /\ this' = e.this
       /\ op' = [name |-> "map", args |-> fn]
       /\ proto' = proto \cup Defines(res')
       /\ UNCHANGED <<other, attribs>>

Replace ==
  /\ op.name = NoOp.name
  /\ \E old \in {Num(1), Null}, c \in ReplaceColumnArgs :
    LET e == replace(this, old, Str("x"), c)
    IN /\ res' = Called("replace", e.out)
       /\ this' = e.this
       /\ op' = [name |-> "replace", args |-> [oldValue |-> old, columnName |-> c]]
       /\ proto' = proto \cup Defines(res')
       /\ UNCHANGED <<other, attribs>>

GroupByAggregate ==
  /\ op.name = NoOp.name
  /\ \E g \in GroupByArgs, verb \in Verbs :
    LET e == groupByAggregate(this, g, verb)
    IN /\ res' = Called("groupBy", e.out)
       /\ this' = e.this
       /\ op' = [name |-> "groupBy", args |-> [groupingColumns |-> g, verb |-> verb]]
       /\ proto' = proto \cup Defines(res')
       /\ UNCHANGED <<other, attribs>>

Merge ==
  /\ op.name = NoOp.name
  /\ \E a \in MergeArgs :
    /\ res' = Called("merge", merge(this, other, a.onKey, a.how, a.suffixes))
    /\ op' = [name |-> "merge", args |-> a]
    /\ proto' = proto \cup Defines(res')
    /\ UNCHANGED <<this, other, attribs>>

Concat ==
  /\ op.name = NoOp.name
  /\ \E frames \in ConcatFrames, axis \in ConcatAxes :
    /\ res' = concat(DataFramesOf(frames, this, other), axis)
    /\ op' = [name |-> "concat", args |-> [frames |-> frames, axis |-> axis]]
    /\ proto' = proto \cup Defines(res')
    /\ UNCHANGED <<this, other, attribs>>

\* the caller lets go of the result; the Tables stay for the next call
Discard ==
  /\ op.name # NoOp.name
  /\ res' = NoResult
  /\ op' = NoOp
  /\ UNCHANGED <<this, other, attribs, proto>>

Next ==
  \/ Construct
  \/ Select
  \/ Filter
  \/ FilterChain
  \/ FilterThen
  \/ Apply
  \/ Map
  \/ Replace
  \/ GroupByAggregate
  \/ Merge
  \/ Concat
  \/ Discard

Spec == Init /\ [][Next]_vars

NextMerge ==
  \/ Merge
  \/ Discard

SpecMerge == InitMerge /\ [][NextMerge]_vars

InitGroup ==
  /\ this \in GroupTables
  /\ other = NodeDataFrame(<<>>, NoColumns).tbl
  /\ res = NoResult
  /\ op = NoOp
  /\ attribs = NoAttribs
  /\ proto = {}

NextGroup ==
  \/ GroupByAggregate
  \/ Discard

SpecGroup == InitGroup /\ [][NextGroup]_vars

\* column lists that name a column after a member of the class
NamedColumns ==
  {Columns(<<"filter", "a">>), Columns(<<"k", "select">>), Columns(<<"rows", "groupBy">>),
   Columns(<<"k", "a">>)}

NamedArgs ==
  {[dataList |-> d, columns |-> c] :
     d \in {<<>>, <<<<Num(1), Num(1)>>>>}, c \in NamedColumns}

\* DataFrame(dataList, columns) for another Table, while this Table is in use
ConstructNamed ==
  /\ op.name = NoOp.name
  /\ \E a \in NamedArgs :
    /\ res' = NodeDataFrame(a.dataList, a.columns)
    /\ op' = [name |-> "constructNamed", args |-> a]
    /\ proto' = proto \cup Defines(res')
    /\ UNCHANGED <<this, other, attribs>>

InitProto ==
  /\ this \in ThisTables
  /\ other = NodeDataFrame(<<>>, NoColumns).tbl
  /\ res = NoResult
  /\ op = NoOp
  /\ attribs = NoAttribs
  /\ proto = {}

NextProto ==
  \/ ConstructNamed
  \/ Select
  \/ Filter
  \/ GroupByAggregate
  \/ Discard

SpecProto == InitProto /\ [][NextProto]_vars

(***************************************************************************)
(* Column access: df.<column> and the Series it returns.                   *)
(***************************************************************************)
\* new Array(...data), the super call of both Series classes: one argument
\* that is a number is taken as a length, the slots left empty (they read as
\* undefined); a length that is no non-negative integer is a RangeError
ArrayOf(data) ==
  IF Len(data) = 1 /\ data[1].t = "number"
  THEN IF data[1].d = 1 /\ data[1].n >= 0 /\ data[1] # NaN
       THEN [ok |-> TRUE, elements |-> [i \in 1..data[1].n |-> Undefined]]
       ELSE [ok |-> FALSE, elements |-> <<>>]
  ELSE [ok |-> TRUE, elements |-> data]

\* setNewAttrib(colName) when the column was not read before: the cached
\* array this.___<colName>___ of row[colName] over the stored rows
setNewAttrib(df, cache, colName) ==
  IF colName \in DOMAIN cache THEN cache
  ELSE [c \in DOMAIN cache \cup {colName} |->
          IF c = colName THEN [i \in 1..Len(df.data) |-> Prop(df.data[i], colName)]
          ELSE cache[c]]

\* new Series(data) on the cached array of a column: the elements are those
\* of new Array(...data), _data is the array itself (named by its column),
\* _index the positions 0 .. data.length - 1
NodeSeries(colName, data) ==
  LET a == ArrayOf(data)
  IN IF a.ok
     THEN [Err("") EXCEPT !.kind = "series",
                          !.prov = <<[col |-> colName, elements |-> a.elements,
                                      index |-> [i \in 1..Len(data) |-> i - 1]]>>]
     ELSE Err("RangeError")

\* the Table is an Array of the rows it was constructed from: an index of it
\* is an own property and is found before any accessor of the prototype
IsOwnElement(df, colName) == \E i \in 1..df.rows : colName = ToString(i - 1)

\* df[colName] for a column name that is not reserved
columnGet(df, cache, colName) ==
  IF IsOwnElement(df, colName)
  THEN [Err("") EXCEPT !.kind = "row", !.prov = <<colName>>]
  ELSE NodeSeries(colName, setNewAttrib(df, cache, colName)[colName])

\* the Tables whose columns are read: those of the operations, and one-row
\* Tables whose numbers are 2, 1/2 and -1
SeriesTables ==
  ThisTables
  \cup {NodeDataFrame(<<<<Num(2), Str("x")>>>>, Columns(<<"k", "a">>)).tbl,
        NodeDataFrame(<<<<Rat(1, 2), Num(-1)>>>>, Columns(<<"k", "a">>)).tbl}

\* the labels and the value handed to Series.set
SetLabels == {0, 1, 2}

SetValue == Str("x")

\* _data of a Series: the cached array of its column, as it is now
SeriesData(r) == attribs[r.prov[1].col]

\* this[c] for a column c of this Table
ColumnAccess ==
  /\ op.name = NoOp.name
  /\ \E c \in Range(this.columns) \ reservedNames :
    /\ res' = columnGet(this, attribs, c)
    /\ attribs' = IF IsOwnElement(this, c) THEN attribs ELSE setNewAttrib(this, attribs, c)
    /\ op' = [name |-> "column", args |-> c]
    /\ UNCHANGED <<this, other, proto>>

\* series.set(label, SetValue) on the Series the last column access returned
SeriesSet ==
  /\ op.name = "column"
  /\ res.kind = "series"
  /\ \E label \in SetLabels :
    LET idx == IndexOf(res.prov[1].index, label)
    IN /\ IF idx = 0
          THEN /\ res' = Err("DataFrameError")
               /\ UNCHANGED attribs
          ELSE /\ res' = res
               /\ attribs' = [attribs EXCEPT ![res.prov[1].col][idx] = SetValue]
       /\ op' = [name |-> "set", args |-> [col |-> res.prov[1].col, label |-> label]]
       /\ UNCHANGED <<this, other, proto>>

InitSeries ==
  /\ this \in SeriesTables
  /\ other = NodeDataFrame(<<>>, NoColumns).tbl
  /\ res = NoResult
  /\ op = NoOp
  /\ attribs = NoAttribs
  /\ proto = {}

NextSeries ==
  \/ ColumnAccess
  \/ SeriesSet
  \/ Discard

SpecSeries == InitSeries /\ [][NextSeries]_vars

(***************************************************************************)
(* Vocabulary of the properties.                                           *)
(***************************************************************************)
Returns(name) == op.name = name /\ IsOk(res)

MergeReturns(how) == Returns("merge") /\ op.args.how = how

JoinKeys == op.args.onKey.names

\* both inputs have rows, so merge ran its join loops
Joined == this.rows > 0 /\ other.rows > 0

\* two key cells have the same JSON encoding: the same type and value, or
\* both null-like
JsonEq(a, b) ==
  \/ a.t \in {"null", "undefined"} /\ b.t \in {"null", "undefined"}
  \/ a.t = b.t /\ a.t \in {"number", "string"} /\ a.n = b.n /\ a.d = b.d /\ a.s = b.s

\* left row l and right row r agree on every join key
Match(l, r) ==
  \A j \in 1..Len(JoinKeys) :
     JsonEq(getCell(this, l, JoinKeys[j]), getCell(other, r, JoinKeys[j]))

Matches(l) == {r \in 1..other.rows : Match(l, r)}

LeftMatches(r) == {l \in 1..this.rows : Match(l, r)}

\* left rows l and l2 hold the same join key
SameLeftKey(l, l2) ==
  \A j \in 1..Len(JoinKeys) :
     JsonEq(getCell(this, l, JoinKeys[j]), getCell(this, l2, JoinKeys[j]))

\* how many result rows were built from left row l and right row r
CountProv(l, r) ==
  Cardinality({p \in 1..Len(res.prov) : res.prov[p] = [l |-> l, r |-> r]})

\* the cells of result row p, by position
ResCells(p) == [j \in 1..Len(res.tbl.columns) |-> Prop(res.tbl.data[p], res.tbl.columns[j])]

\* the cells of a source row in column order
CellsOf(df, i) == [j \in 1..Len(df.columns) |-> getCell(df, i, df.columns[j])]

\* the positions of the right Table's columns that are no join key
NonKeyRight == {j \in 1..Len(other.columns) : other.columns[j] \notin Range(JoinKeys)}

\* the cells of right row r in its non-key columns, in column order
NonKeyCellsOf(r) ==
  LET all == CellsOf(other, r)
  IN SelectSeqBy(all, [j \in 1..Len(all) |-> j \in NonKeyRight])

\* the left-originated / right-originated cells of result row p of a join
LeftPart(p) == SubSeq(ResCells(p), 1, Len(this.columns))

RightPart(p) == SubSeq(ResCells(p), Len(this.columns) + 1, Len(res.tbl.columns))

\* every left row is covered as a left join covers it
LeftJoinCover ==
  \A l \in 1..this.rows :
     IF Matches(l) # {}
     THEN /\ \A r \in Matches(l) : CountProv(l, r) = 1
          /\ \A p \in 1..Len(res.prov) : res.prov[p].l = l => res.prov[p].r \in Matches(l)
     ELSE /\ CountProv(l, 0) = 1
          /\ \A p \in 1..Len(res.prov) : res.prov[p].l = l => res.prov[p].r = 0

\* a result row built from a left row carries that row's cells, and the
\* matched right row's non-key cells or nulls
BuiltRowsFaithful ==
  \A p \in 1..Len(res.prov) :
     res.prov[p].l # 0 /\ res.alias = "new" =>
        /\ LeftPart(p) = CellsOf(this, res.prov[p].l)
        /\ IF res.prov[p].r # 0 THEN RightPart(p) = NonKeyCellsOf(res.prov[p].r)
           ELSE \A j \in 1..Len(RightPart(p)) : RightPart(p)[j] = Null

(***************************************************************************)
(* C1: every Table an operation returns has rows = Len(index) and          *)
(* cols = Len(columns), zero-row and zero-column results included; so do   *)
(* the constructed input Tables.                                           *)
(***************************************************************************)
Consistent(tbl) == tbl.rows = Len(tbl.index) /\ tbl.cols = Len(tbl.columns)

C1_StructuralInvariant ==
  /\ Consistent(this)
  /\ Consistent(other)
  /\ IsOk(res) => Consistent(res.tbl)

\* a filter that kept no row of a Table with columns has returned
C1_Witness ==
  /\ Returns("filter")
  /\ this.rows > 0
  /\ res.tbl.rows = 0
  /\ res.tbl.cols = 2

(***************************************************************************)
(* C2: no operation changes its input Tables: columns, index, rows, cols   *)
(* and every stored cell are the same after the call as before it.         *)
(***************************************************************************)
C2_InputsUnchanged == [][this' = this /\ other' = other]_vars

\* apply has returned a Table whose cells differ from the receiver's
C2_Witness ==
  /\ Returns("apply")
  /\ this.rows > 0
  /\ res.tbl.rows = this.rows
  /\ \E i \in 1..this.rows : CellsOf(res.tbl, i) # CellsOf(this, i)

(***************************************************************************)
(* C3: an inner merge has exactly one row per pair of a left and a right   *)
(* row whose join keys match: a key tuple found m times on the left and n  *)
(* times on the right gives m*n rows, a key on one side only gives none.   *)
(***************************************************************************)
C3_InnerJoinPairs ==
  MergeReturns("inner") =>
    /\ res.tbl.rows = Cardinality({lr \in (1..this.rows) \X (1..other.rows) : Match(lr[1], lr[2])})
    /\ Len(res.prov) = res.tbl.rows
    /\ \A l \in 1..this.rows : \A r \in 1..other.rows :
          CountProv(l, r) = IF Match(l, r) THEN 1 ELSE 0
    /\ \A p \in 1..Len(res.prov) : res.prov[p].l # 0 /\ res.prov[p].r # 0
    /\ \A l \in 1..this.rows :
          Cardinality({p \in 1..Len(res.prov) : SameLeftKey(l, res.prov[p].l)})
          = Cardinality({l2 \in 1..this.rows : SameLeftKey(l, l2)}) * Cardinality(Matches(l))
    /\ BuiltRowsFaithful

\* an inner merge with a key twice on each side and a left key without a
\* match has returned
C3_Witness ==
  /\ MergeReturns("inner")
  /\ Joined
  /\ \E l1, l2 \in 1..this.rows :
        l1 # l2 /\ Cardinality(Matches(l1)) = 2 /\ Matches(l2) = Matches(l1)
  /\ \E l \in 1..this.rows : Matches(l) = {}
  /\ res.tbl.rows = 4

(***************************************************************************)
(* C4: a left merge shows every left row: once per matching right row, or  *)
(* once with null in every right-originated column of the output when no   *)
(* right row matches; the output has at least as many rows as the left     *)
(* Table.                                                                  *)
(***************************************************************************)
C4_LeftJoinKeepsLeftRows ==
  MergeReturns("left") =>
    /\ LeftJoinCover
    /\ \A p \in 1..Len(res.prov) : res.prov[p].l # 0
    /\ Len(res.prov) = res.tbl.rows
    /\ BuiltRowsFaithful
    /\ res.tbl.rows >= this.rows

\* a left merge with an unmatched left row and a left row matched twice
\* has returned
C4_Witness ==
  /\ MergeReturns("left")
  /\ Joined
  /\ \E l \in 1..this.rows : Matches(l) = {}
  /\ \E l \in 1..this.rows : Cardinality(Matches(l)) = 2
  /\ res.tbl.rows > this.rows

(***************************************************************************)
(* C5: in a right merge, a right row whose key matches no left row gives   *)
(* one output row with null in every left non-key column and the right     *)
(* row's own key values in the join-key columns.                           *)
(***************************************************************************)
\* result row p, built from right row r alone, holds r's key values in the
\* join-key columns and null in the other left columns
RightOnlyRowKeepsKey(p, r) ==
  \A j \in 1..Len(this.columns) :
     LeftPart(p)[j] = IF this.columns[j] \in Range(JoinKeys)
                      THEN getCell(other, r, this.columns[j]) ELSE Null

C5_RightJoinKeepsKey ==
  MergeReturns("right") =>
    \A r \in 1..other.rows :
       LeftMatches(r) = {} =>
          /\ CountProv(0, r) = 1
          /\ \A p \in 1..Len(res.prov) :
                res.prov[p] = [l |-> 0, r |-> r] /\ res.alias = "new" =>
                   RightOnlyRowKeepsKey(p, r)

SameRightKey(r, r2) ==
  \A j \in 1..Len(JoinKeys) :
     JsonEq(getCell(other, r, JoinKeys[j]), getCell(other, r2, JoinKeys[j]))

\* the first left / right row holding the key of row l / r
FirstLeft(l) == CHOOSE l1 \in 1..this.rows :
                   SameLeftKey(l, l1) /\ \A l2 \in 1..(l1 - 1) : ~SameLeftKey(l, l2)

FirstRight(r) == CHOOSE r1 \in 1..other.rows :
                    SameRightKey(r, r1) /\ \A r2 \in 1..(r1 - 1) : ~SameRightKey(r, r2)

C7_LeftRowOrderAsClaimed ==
  Returns("merge") /\ op.args.how \in {"inner", "left", "outer"} =>
    \A p, q \in 1..Len(res.prov) :
       p < q =>
          /\ res.prov[p].l # 0 /\ res.prov[q].l # 0 => res.prov[p].l <= res.prov[q].l
          /\ res.prov[p].l = 0 => res.prov[q].l = 0
          /\ res.prov[p].l = 0 /\ res.prov[q].l = 0 => res.prov[p].r < res.prov[q].r

C7_MergeRowOrder ==
  Returns("merge") /\ op.args.how \in {"inner", "left", "outer"} =>
    \A p, q \in 1..Len(res.prov) :
       p < q =>
          LET a == res.prov[p]
              b == res.prov[q]
          IN /\ a.l = 0 => b.l = 0
             /\ a.l # 0 /\ b.l # 0 /\ op.args.how # "inner" =>
                   a.l < b.l \/ (a.l = b.l /\ a.r < b.r)
             /\ a.l # 0 /\ b.l # 0 /\ op.args.how = "inner" =>
                   \/ FirstLeft(a.l) < FirstLeft(b.l)
                   \/ /\ FirstLeft(a.l) = FirstLeft(b.l)
                      /\ a.l < b.l \/ (a.l = b.l /\ a.r < b.r)
             /\ a.l = 0 /\ b.l = 0 /\ Joined =>
                   \/ FirstRight(a.r) < FirstRight(b.r)
                   \/ FirstRight(a.r) = FirstRight(b.r) /\ a.r < b.r
             /\ a.l = 0 /\ b.l = 0 /\ ~Joined => a.r < b.r

\* an inner merge has returned rows of a later left row before rows of an
\* earlier one
C7_Witness ==
  /\ MergeReturns("inner")
  /\ \E p, q \in 1..Len(res.prov) : p < q /\ res.prov[p].l > res.prov[q].l

(***************************************************************************)
(* C8: which rows merge matches.                                           *)
(* As claimed: a left and a right row are matched exactly when their key   *)
(* values have the same string representation position by position (the    *)
(* equality groupBy uses), so 1 and "1" match.                             *)
(* As the code has it: they are matched exactly when the JSON encodings of *)
(* their key tuples are equal, that is when the key values agree in type   *)
(* and value position by position (null and undefined alike); 1 and "1"    *)
(* are not matched.                                                        *)
(***************************************************************************)
StringMatch(l, r) ==
  \A j \in 1..Len(JoinKeys) :
     String(getCell(this, l, JoinKeys[j])) = String(getCell(other, r, JoinKeys[j]))

Paired(l, r) == \E p \in 1..Len(res.prov) : res.prov[p] = [l |-> l, r |-> r]

C8_StringKeyEquality ==
  Returns("merge") /\ Joined =>
    \A l \in 1..this.rows : \A r \in 1..other.rows : Paired(l, r) <=> StringMatch(l, r)

C8_JsonKeyEquality ==
  Returns("merge") /\ Joined =>
    \A l \in 1..this.rows : \A r \in 1..other.rows :
       /\ Paired(l, r) <=> Match(l, r)
       /\ Paired(l, r) =>
             \A j \in 1..Len(JoinKeys) :
                getCell(this, l, JoinKeys[j]).t = getCell(other, r, JoinKeys[j]).t

\* a merge has returned with the number 1 on the left and the string "1"
\* on the right in the key column, unmatched, and another pair matched
C8_Witness ==
  /\ Returns("merge")
  /\ Joined
  /\ \E l \in 1..this.rows : \E r \in 1..other.rows :
        StringMatch(l, r) /\ ~Match(l, r) /\ ~Paired(l, r)
  /\ \E l \in 1..this.rows : \E r \in 1..other.rows : Paired(l, r)

(***************************************************************************)
(* C9: the column list of a merge result.                                  *)
(* As claimed: always the left columns in left order, then the right       *)
(* non-key columns in right order, a non-key name found on both sides      *)
(* appearing only with suffixes[0] (left copy) and suffixes[1] (right      *)
(* copy), each join key once.                                              *)
(* As the code has it: that holds when both inputs have at least one row;  *)
(* with a zero-row input the result has no columns, or is the other input  *)
(* with its own columns.                                                   *)
(***************************************************************************)
\* the non-key names found on both sides
Colliding == {c \in Range(other.columns) \ Range(JoinKeys) : c \in Range(this.columns)}

ExpectedColumns ==
  LET sfx == op.args.suffixes.v
      rightNames == SelectSeqBy(other.columns,
                       [j \in 1..Len(other.columns) |-> j \in NonKeyRight])
  IN [i \in 1..Len(this.columns) |->
        IF this.columns[i] \in Colliding THEN this.columns[i] \o sfx[1] ELSE this.columns[i]]
     \o [i \in 1..Len(rightNames) |->
           IF rightNames[i] \in Colliding THEN rightNames[i] \o sfx[2] ELSE rightNames[i]]

\* the join keys are columns of both inputs and the suffixes are a pair
KeysAndSuffixesValid ==
  /\ \A j \in 1..Len(JoinKeys) :
        JoinKeys[j] \in Range(this.columns) /\ JoinKeys[j] \in Range(other.columns)
  /\ op.args.suffixes.arr
  /\ Len(op.args.suffixes.v) = 2

ColumnsAsSpecified ==
  /\ res.tbl.columns = ExpectedColumns
  /\ \A c \in Colliding : c \notin Range(res.tbl.columns)
  /\ \A j \in 1..Len(JoinKeys) :
        Cardinality({i \in 1..Len(res.tbl.columns) : res.tbl.columns[i] = JoinKeys[j]}) = 1

C9_ColumnsAlways ==
  Returns("merge") /\ op.args.how \in ValidJoinTypes /\ KeysAndSuffixesValid =>
     ColumnsAsSpecified

C9_ColumnsWhenBothHaveRows ==
  Returns("merge") /\ Joined => ColumnsAsSpecified /\ res.tbl.cols = Len(ExpectedColumns)

\* a merge of two Tables with rows that share a non-key column name has
\* returned
C9_Witness ==
  /\ Returns("merge")
  /\ Joined
  /\ Colliding # {}
  /\ \E i \in 1..Len(res.tbl.columns) : res.tbl.columns[i] = "a_x"
  /\ \E i \in 1..Len(res.tbl.columns) : res.tbl.columns[i] = "a_y"

(***************************************************************************)
(* C10: merge raises an error, and returns no Table, whenever a join key   *)
(* is missing from either side, the join type is not inner, left, right or *)
(* outer, or suffixes is not a 2-element array, whatever rows the inputs   *)
(* hold, zero rows included.                                               *)
(***************************************************************************)
BadMergeParameters ==
  \/ \E j \in 1..Len(JoinKeys) :
        JoinKeys[j] \notin Range(this.columns) \/ JoinKeys[j] \notin Range(other.columns)
  \/ op.args.how \notin {"inner", "left", "right", "outer"}
  \/ ~op.args.suffixes.arr
  \/ Len(op.args.suffixes.v) # 2

C10_ParameterErrorsAlwaysRaised ==
  op.name = "merge" /\ BadMergeParameters => res.kind = "error"

(***************************************************************************)
(* C11: merge returns a Table object distinct from both of its inputs,     *)
(* also when one side has zero rows and the join type keeps the other      *)
(* side.                                                                   *)
(***************************************************************************)
C11_MergeReturnsNewTable ==
  Returns("merge") => res.alias = "new"

(***************************************************************************)
(* Vocabulary of the groupBy properties.                                   *)
(***************************************************************************)
GroupReturns(verb) == Returns("groupBy") /\ op.args.verb = verb

GroupingColumns == op.args.groupingColumns.names

\* source row i is among the rows result row p was computed from
InGroup(i, p) == i \in Range(res.prov[p].rows)

\* source rows i1 and i2 have the same string representation in every
\* grouping column
SameKeyStrings(i1, i2) ==
  \A j \in 1..Len(GroupingColumns) :
     String(getCell(this, i1, GroupingColumns[j]))
     = String(getCell(this, i2, GroupingColumns[j]))

\* the sum of the count column of the result
CountSum == RatSum([p \in 1..res.tbl.rows |-> getCell(res.tbl, p, "count")]).n

(***************************************************************************)
(* C12: the count column of groupBy(keys).count() sums to the number of    *)
(* rows of the source Table, for one key column and for a list of key      *)
(* columns: every source row is counted in exactly one group.              *)
(***************************************************************************)
C12_CountSumsToRows ==
  GroupReturns("count") /\ Len(GroupingColumns) >= 1 =>
    /\ CountSum = this.rows
    /\ \A i \in 1..this.rows : Cardinality({p \in 1..Len(res.prov) : InGroup(i, p)}) = 1

(***************************************************************************)
(* C13: under multi-key grouping two rows are in the same group exactly    *)
(* when their values have the same string representation in every key      *)
(* column (1 and "1" share a group).                                       *)
(***************************************************************************)
C13_MultiKeyGroups ==
  Returns("groupBy") /\ Len(GroupingColumns) >= 2 =>
    \A i1, i2 \in 1..this.rows :
       (\E p \in 1..Len(res.prov) : InGroup(i1, p) /\ InGroup(i2, p))
       <=> SameKeyStrings(i1, i2)

(***************************************************************************)
(* C14: a groupBy result has one row per group, the rows ordered by the    *)
(* position of each group's first row in the source Table, for single-key  *)
(* and multi-key grouping alike.                                           *)
(***************************************************************************)
C14_FirstEncounteredOrder ==
  Returns("groupBy") /\ Len(GroupingColumns) >= 1 =>
    /\ Len(res.prov) = res.tbl.rows
    /\ \A p \in 1..Len(res.prov) : Len(res.prov[p].rows) >= 1
    /\ \A p, q \in 1..Len(res.prov) :
          p < q => res.prov[p].rows[1] < res.prov[q].rows[1]

(***************************************************************************)
(* C15: for sum, mean, min and max the cell of a group and a non-key       *)
(* column is computed from exactly the values of that column in the        *)
(* group's rows that are numbers or numeric strings; when there is none    *)
(* the cell is null, and no error is raised.                               *)
(***************************************************************************)
\* a number, or a string that parseFloat reads as a number
IsNumericValue(v) == v.t = "number" \/ (v.t = "string" /\ v.d # 0)

\* the source columns that are no grouping column
ValueColumns == {c \in Range(this.columns) : c \notin Range(GroupingColumns)}

\* the numeric values of column c in the rows of result row p, as numbers,
\* in row order
NumericValuesOf(p, c) ==
  LET cells == [r \in 1..Len(res.prov[p].rows) |-> getCell(this, res.prov[p].rows[r], c)]
      kept == SelectSeqBy(cells, [r \in 1..Len(cells) |-> IsNumericValue(cells[r])])
  IN [r \in 1..Len(kept) |-> Rat(kept[r].n, kept[r].d)]

\* x is what the verb gives on the non-empty list vals
IsAggregateOf(x, verb, vals) ==
  CASE verb = "sum" -> x = RatSum(vals)
    [] verb = "mean" -> x = RatDivInt(RatSum(vals), Len(vals))
    [] verb = "min" -> x \in Range(vals) /\ \A i \in 1..Len(vals) : ~RatLess(vals[i], x)
    [] verb = "max" -> x \in Range(vals) /\ \A i \in 1..Len(vals) : ~RatLess(x, vals[i])
    [] OTHER -> FALSE

SampleVariance(vals) ==
  LET mean == RatDivInt(RatSum(vals), Len(vals))
  IN RatDivInt(RatSum([i \in 1..Len(vals) |->
                         RatMul(RatSub(vals[i], mean), RatSub(vals[i], mean))]),
               Len(vals) - 1)

\* x is the non-negative square root of the number v
IsSqrtOf(x, v) ==
  /\ x.t = "number"
  /\ IF x.rt THEN x.n = v.n /\ x.d = v.d
     ELSE x.n >= 0 /\ RatMul(x, x) = v

ValuesOf(p, c) ==
  [r \in 1..Len(res.prov[p].rows) |-> getCell(this, res.prov[p].rows[r], c)]

C17_GroupMatchesSeries ==
  Returns("groupBy") /\ op.args.verb \in {"mean", "std", "min", "max"} =>
    \A p \in 1..Len(res.prov) : \A c \in ValueColumns :
       getCell(res.tbl, p, c) = SeriesStatistic(op.args.verb, ValuesOf(p, c))

(***************************************************************************)
(* C18: an aggregation on a groupBy of a zero-row Table returns a Table    *)
(* with zero rows whose column list is the key columns followed by count   *)
(* (for count) or by the source's non-key columns in source order (for     *)
(* the other verbs); it is never a Table without columns.                  *)
(***************************************************************************)
\* the columns of the source that are no grouping column, in source order
NonKeyColumns ==
  SelectSeqBy(this.columns,
              [i \in 1..Len(this.columns) |-> this.columns[i] \notin Range(GroupingColumns)])

C18_ZeroRowGroupBy ==
  /\ Returns("groupBy") /\ this.rows = 0 /\ Len(GroupingColumns) >= 1 =>
       /\ res.tbl.rows = 0
       /\ res.tbl.data = <<>>
       /\ res.tbl.index = <<>>
       /\ res.tbl.columns =
            GroupingColumns \o (IF op.args.verb = "count" THEN <<"count">> ELSE NonKeyColumns)
       /\ res.tbl.cols = Len(res.tbl.columns)
       /\ res.tbl.cols > 0
  /\ /\ op.name = "groupBy"
     /\ this.rows = 0
     /\ op.args.groupingColumns.kind # "other"
     /\ Range(GroupingColumns) \subseteq Range(this.columns)
     => IsOk(res)

\* a mean over the groups of a zero-row Table with columns k and a has
\* returned a zero-row Table with columns k and a
C18_Witness ==
  /\ GroupReturns("mean")
  /\ this.rows = 0
  /\ this.columns = <<"k", "a">>
  /\ GroupingColumns = <<"k">>
  /\ res.tbl.rows = 0
  /\ res.tbl.columns = <<"k", "a">>

(***************************************************************************)
(* C19: each result row of a groupBy aggregation carries in its key        *)
(* columns, in key order, the key values of its group: when all source     *)
(* rows of the group hold the same value in a key column, the key cell is  *)
(* that value, of the same type.                                           *)
(***************************************************************************)
\* the cell of source row i in the j-th grouping column
KeyValue(i, j) == getCell(this, i, GroupingColumns[j])

C19_KeyCellsAsClaimed ==
  Returns("groupBy") /\ Len(GroupingColumns) >= 1 =>
    \A p \in 1..Len(res.prov) : \A j \in 1..Len(GroupingColumns) :
       \A i \in Range(res.prov[p].rows) :
          (\A i2 \in Range(res.prov[p].rows) : StrictEq(KeyValue(i2, j), KeyValue(i, j)))
          => StrictEq(getCell(res.tbl, p, GroupingColumns[j]), KeyValue(i, j))

(***************************************************************************)
(* C19, as the code has it: the key columns come first, in key order, and  *)
(* the key cell of a result row is a string, the string representation     *)
(* that the values of all source rows of the group share in that column.   *)
(***************************************************************************)
C19_KeyCellsAreStrings ==
  Returns("groupBy") /\ Len(GroupingColumns) >= 1 =>
    /\ SubSeq(res.tbl.columns, 1, Len(GroupingColumns)) = GroupingColumns
    /\ Len(res.prov) = res.tbl.rows
    /\ \A p \in 1..Len(res.prov) : \A j \in 1..Len(GroupingColumns) :
          /\ Len(res.prov[p].rows) >= 1
          /\ getCell(res.tbl, p, GroupingColumns[j]).t = "string"
          /\ \A i \in Range(res.prov[p].rows) :
                String(getCell(res.tbl, p, GroupingColumns[j])) = String(KeyValue(i, j))

\* a group of two rows that both hold the number 1 as key has the string
\* "1" as key cell, and a group with the key null has the string "null"
C19_Witness ==
  /\ GroupReturns("count")
  /\ GroupingColumns = <<"k", "a">>
  /\ \E p \in 1..Len(res.prov) :
        /\ Len(res.prov[p].rows) = 2
        /\ \A i \in Range(res.prov[p].rows) : KeyValue(i, 1) = Num(1)
        /\ getCell(res.tbl, p, "k") = NumStr(1)
  /\ \E p \in 1..Len(res.prov) :
        /\ \A i \in Range(res.prov[p].rows) : KeyValue(i, 2) = Null
        /\ getCell(res.tbl, p, "a") = Str("null")

(***************************************************************************)
(* C20: for any Table T and any conditions P and Q, T.filter(P).filter(Q)  *)
(* has the same columns and the same rows in the same order as             *)
(* T.filter(r => P(r) && Q(r)), also when the intermediate or the final    *)
(* result has zero rows; the one raises an error exactly when the other    *)
(* does, and the same one.                                                 *)
(***************************************************************************)
\* what this.filter(row => p(row) && q(row)) returns for the conditions
\* of the chained call
CombinedFilter == filter(this, And(op.args.p, op.args.q)).out

C20_ChainedFiltersCompose ==
  op.name = "filterChain" =>
    /\ IsOk(res) <=> IsOk(CombinedFilter)
    /\ res.err = CombinedFilter.err
    /\ IsOk(res) =>
         /\ res.tbl.columns = CombinedFilter.tbl.columns
         /\ res.tbl.cols = CombinedFilter.tbl.cols
         /\ res.tbl.rows = CombinedFilter.tbl.rows
         /\ res.tbl.data = CombinedFilter.tbl.data

\* a chained filter whose first condition kept none of two rows has
\* returned a zero-row Table with the columns of the source
C20_Witness ==
  /\ Returns("filterChain")
  /\ op.args.p = "kIsNumber"
  /\ op.args.q = "aIsNull"
  /\ this.rows = 2
  /\ filter(this, "kIsNumber").out.tbl.rows = 0
  /\ res.tbl.rows = 0
  /\ res.tbl.columns = <<"k", "a">>

(***************************************************************************)
(* C21: a filter whose condition keeps no row returns a Table with         *)
(* rows = 0 and the column list of the source (with as many columns, so    *)
(* never a Table without columns when the source has some), and a further  *)
(* select, filter or groupBy that names columns of the source succeeds on  *)
(* that result.                                                            *)
(***************************************************************************)
\* the condition c is false on every row of the source
KeepsNoRow(c) == \A i \in 1..this.rows : PredEval(c, getRow(this, i)) = "F"

\* the Table this.filter(c) returns
Filtered(c) == filter(this, c).out

C21_EmptyFilterKeepsColumns ==
  /\ op.name = "filter" /\ IsFunction(op.args) /\ KeepsNoRow(op.args) =>
       /\ IsOk(res)
       /\ res.tbl.rows = 0
       /\ res.tbl.data = <<>>
       /\ res.tbl.columns = this.columns
       /\ res.tbl.cols = Len(this.columns)
  /\ op.name = "filterChain" /\ KeepsNoRow(op.args.p) =>
       /\ IsOk(res)
       /\ res.tbl.rows = 0
       /\ res.tbl.columns = this.columns
       /\ res.tbl.cols = Len(this.columns)
  /\ /\ op.name = "filterThen"
     /\ KeepsNoRow(op.args.p)
     /\ Range(op.args.arg.names) \subseteq Range(this.columns)
     /\ IF op.args.then = "select" THEN op.args.arg.arr
        ELSE op.args.arg.kind # "other" /\ Len(op.args.arg.names) >= 1
     => /\ IsOk(res)
        /\ res.tbl.rows = 0
        /\ res.tbl.cols = Len(res.tbl.columns)
        /\ res.tbl.columns =
             IF op.args.then = "select" THEN op.args.arg.names
             ELSE IF op.args.verb = "count" THEN op.args.arg.names \o <<"count">>
             ELSE op.args.arg.names \o
                  SelectSeqBy(this.columns,
                     [i \in 1..Len(this.columns) |->
                        this.columns[i] \notin Range(op.args.arg.names)])

\* on a Table of two rows with columns k and a, a filter that keeps no row
\* was followed by groupBy('k').count(), which returned a zero-row Table
\* with columns k and count
C21_Witness ==
  /\ Returns("filterThen")
  /\ this.rows = 2
  /\ this.columns = <<"k", "a">>
  /\ KeepsNoRow(op.args.p)
  /\ Filtered(op.args.p).tbl.columns = <<"k", "a">>
  /\ op.args.then = "groupBy"
  /\ op.args.arg.names = <<"k">>
  /\ res.tbl.rows = 0
  /\ res.tbl.columns = <<"k", "count">>

(***************************************************************************)
(* C22: for any Table T and any list S of distinct columns of T, the empty *)
(* list included, select(T, S) has T.rows rows in T's row order, has       *)
(* exactly the columns S in the requested order, and each of its cells     *)
(* equals T's cell of the same row and column.                             *)
(***************************************************************************)
C22_SelectPreservesRows ==
  /\ op.name = "select"
  /\ op.args.arr
  /\ Range(op.args.names) \subseteq Range(this.columns)
  /\ ~HasDuplicates(op.args.names)
  => /\ IsOk(res)
     /\ res.tbl.rows = this.rows
     /\ Len(res.tbl.data) = this.rows
     /\ res.tbl.columns = op.args.names
     /\ res.tbl.cols = Len(op.args.names)
     /\ \A i \in 1..this.rows :
           /\ DOMAIN getRow(res.tbl, i) = Range(op.args.names)
           /\ \A c \in Range(op.args.names) :
                 getCell(res.tbl, i, c) = getCell(this, i, c)

\* two columns of a Table of two different rows were selected in the
\* reverse of the source order
C22_Witness ==
  /\ Returns("select")
  /\ this.rows = 2
  /\ Len(op.args.names) = 2
  /\ op.args.names[1] = this.columns[2]
  /\ op.args.names[2] = this.columns[1]
  /\ this.data[1] # this.data[2]
  /\ res.tbl.rows = 2
  /\ getCell(this, 1, this.columns[1]) # getCell(this, 1, this.columns[2])

(***************************************************************************)
(* Vocabulary of the concat properties.                                    *)
(***************************************************************************)
\* the Tables handed to concat, in input order
Inputs == DataFramesOf(op.args.frames, this, other)

ConcatCalled(axis) == op.name = "concat" /\ op.args.axis = axis

\* the columns of the inputs in first-seen order
UnionColumns == Distinct(Flatten([d \in 1..Len(Inputs) |-> Inputs[d].columns]))

\* the number of rows of the inputs before input d
RowsBefore(d) == RatSum([e \in 1..(d - 1) |-> Num(Inputs[e].rows)]).n

(***************************************************************************)
(* C23: concat with axis = 0 returns a Table whose row count is the sum    *)
(* of the inputs' row counts, with the rows in input order and then in     *)
(* original row order, whose columns are the union of the inputs' columns  *)
(* in first-seen order, and in which the cell of a column its source       *)
(* Table lacks is null.                                                    *)
(***************************************************************************)
\* the result holds the rows of the inputs, one after the other, under the
\* union of the columns
StackedRows ==
  /\ IsOk(res)
  /\ res.tbl.rows = RowsBefore(Len(Inputs) + 1)
  /\ Len(res.tbl.data) = res.tbl.rows
  /\ res.tbl.columns = UnionColumns
  /\ res.tbl.cols = Len(UnionColumns)
  /\ \A d \in 1..Len(Inputs) : \A i \in 1..Inputs[d].rows : \A c \in Range(UnionColumns) :
        getCell(res.tbl, RowsBefore(d) + i, c)
        = IF c \in Range(Inputs[d].columns) THEN getCell(Inputs[d], i, c) ELSE Null

C23_VerticalAsClaimed == ConcatCalled(0) => StackedRows

(***************************************************************************)
(* C23, as the code has it: the above holds when the inputs have at least  *)
(* one column between them; when no input has a column the result is the   *)
(* Table without rows and columns, whatever rows the inputs have.          *)
(***************************************************************************)
C23_VerticalWithColumns ==
  ConcatCalled(0) =>
    IF Len(UnionColumns) > 0 THEN StackedRows
    ELSE IsOk(res) /\ res.tbl = NodeDataFrame(<<>>, NoColumns).tbl

\* two Tables with rows and with different column lists were stacked: the
\* result has more columns than either and a null where the first lacks a
\* column
C23_Witness ==
  /\ ConcatCalled(0)
  /\ IsOk(res)
  /\ op.args.frames = "this,other"
  /\ this.rows = 2
  /\ other.rows = 1
  /\ this.columns = <<"k", "a">>
  /\ other.columns = <<"b", "k">>
  /\ res.tbl.columns = <<"k", "a", "b">>
  /\ res.tbl.rows = 3
  /\ getCell(res.tbl, 1, "b") = Null
  /\ getCell(res.tbl, 3, "a") = Null

(***************************************************************************)
(* C24: concat with axis = 1 ignores zero-row inputs and, when the         *)
(* remaining Tables do not all have the same row count, raises a           *)
(* validation error that identifies the mismatching Table by its index in  *)
(* the input list and reports its row count against the row count of the   *)
(* first Table with rows.                                                  *)
(***************************************************************************)
\* the positions in the input list of the Tables with rows
WithRows == {d \in 1..Len(Inputs) : Inputs[d].rows > 0}

FirstWithRows == CHOOSE d \in WithRows : \A e \in WithRows : d <= e

C24_MismatchNamesInputIndex ==
  /\ ConcatCalled(1)
  /\ \E d, e \in WithRows : Inputs[d].rows # Inputs[e].rows
  => /\ ~IsOk(res)
     /\ res.err = "ValidationError"
     /\ Len(res.prov) = 1
     /\ res.prov[1].expectedRows = Inputs[FirstWithRows].rows
     /\ res.prov[1].actualRows # res.prov[1].expectedRows
     /\ res.prov[1].index + 1 \in WithRows
     /\ Inputs[res.prov[1].index + 1].rows = res.prov[1].actualRows

(***************************************************************************)
(* C25: concat with axis = 1 over Tables with rows and of equal row count  *)
(* returns a Table whose column list is the concatenation of the inputs'   *)
(* column lists in input order, colliding names left as they are (so a     *)
(* name may appear twice), and whose row i is the concatenation of the     *)
(* inputs' rows i.                                                         *)
(***************************************************************************)
\* the cells of row i of every input, one input after the other
JoinedCells(i) ==
  Flatten([d \in 1..Len(Inputs) |->
     [j \in 1..Len(Inputs[d].columns) |-> getCell(Inputs[d], i, Inputs[d].columns[j])]])

C25_HorizontalKeepsCollidingNames ==
  /\ ConcatCalled(1)
  /\ Len(Inputs) >= 1
  /\ \A d \in 1..Len(Inputs) : Inputs[d].rows > 0 /\ Inputs[d].rows = Inputs[1].rows
  => /\ IsOk(res)
     /\ res.tbl.columns = Flatten([d \in 1..Len(Inputs) |-> Inputs[d].columns])
     /\ res.tbl.rows = Inputs[1].rows
     /\ \A i \in 1..Inputs[1].rows : \A j \in 1..Len(res.tbl.columns) :
           Prop(res.tbl.data[i], res.tbl.columns[j]) = JoinedCells(i)[j]

(***************************************************************************)
(* C26: the column names of every constructed Table are unique, non-empty  *)
(* strings: construction with a column list that holds a duplicate, a      *)
(* name that is no string or an empty-string name fails with a validation  *)
(* error, whatever the row data is, no rows at all included.               *)
(***************************************************************************)
\* a column list as the claim wants it
UniqueNonEmptyStrings(names) ==
  /\ ~HasDuplicates(names)
  /\ \A i \in 1..Len(names) : isString(names[i]) /\ names[i] # ""

C26_BadColumnNamesRejected ==
  /\ op.name = "construct" /\ op.args.columns.given
     /\ ~UniqueNonEmptyStrings(op.args.columns.names)
     => ~IsOk(res) /\ res.err = "ValidationError"
  /\ Returns("construct") => UniqueNonEmptyStrings(res.tbl.columns)

\* C30: constructing a Table, whatever its column names, leaves every
\* operation on the Tables that exist as it was: a select, filter or groupBy
\* on this Table returns what it returns from the Table and its arguments
\* alone, however many other Tables were constructed before the call.
C30_ConstructionLeavesOperationsAlone ==
  /\ op.name = "select" => res = select(this, op.args).out
  /\ op.name = "filter" => res = filter(this, op.args).out
  /\ op.name = "groupBy" =>
       res = groupByAggregate(this, op.args.groupingColumns, op.args.verb).out

\* the cells of column c of this Table, top to bottom, as getCell reads them
ColumnCells(c) == [i \in 1..this.rows |-> getCell(this, i, c)]

\* C27: a Series obtained from a Table is a projection of it: whatever was
\* set on an earlier Series of a column, a fresh access of that column reads
\* the values the Table holds, the ones getCell returns.
C27_FreshAccessReadsTheTable ==
  (op.name = "column" /\ res.kind = "series") => SeriesData(res) = ColumnCells(op.args)

\* C28: accessing a column of a Table returns a Series whose length is the
\* Table's row count and whose i-th element is the cell of row i in that
\* column, for every row count and every cell value.
C28_ColumnSeriesMatchesCells ==
  op.name = "column" =>
    /\ res.kind = "series"
    /\ Len(res.prov[1].elements) = this.rows
    /\ \A i \in 1..this.rows : res.prov[1].elements[i] = getCell(this, i, op.args)

\* the integers 0, 1, ..., n - 1 in order
IntegerIndex(n) == [i \in 1..n |-> Num(i - 1)]

\* C29: a Table built from n rows has the index 0, 1, ..., n-1 of integers,
\* whether or not a column list is supplied, and the Tables select and filter
\* return carry such an integer index for their own rows.
C29_IndexIsIntegerRange ==
  /\ Returns("construct") =>
       res.tbl.index = IntegerIndex(Len(op.args.dataList))
  /\ (Returns("select") \/ Returns("filter")) =>
       res.tbl.index = IntegerIndex(res.tbl.rows)

====
